---- MODULE Spec2Model ----
(***************************************************************************)
(* A model of the xv6 interrupt boundary: the e1000 descriptor-ring driver *)
(* (kernel/e1000.c) and the trap dispatcher (kernel/trap.c).               *)
(*                                                                         *)
(* The driver part keeps the two rings, the buffer-ownership arrays, the   *)
(* device registers the code reads and writes, and e1000_lock.  Every C    *)
(* function is cut into steps at the points where another core or the      *)
(* device can interleave: acquire, release and the call of net_rx.         *)
(* The device, the page allocator, net_rx and the callers of               *)
(* e1000_transmit are the environment.                                     *)
(***************************************************************************)
EXTENDS Integers, Sequences, FiniteSets, TLC

(* ----------------------------- constants ------------------------------ *)

TX_RING_SIZE == 16
RX_RING_SIZE == 16

\* Bounds of the model.
NPAGES == 35          \* physical pages the allocator manages
MaxRxPkts == 18       \* packets the device receives in one run
MaxHeld == 1          \* delivered buffers the network stack keeps in one run
MaxReentPkts == 2     \* packets received in the re-entrancy specification

MaxTicks == 3         \* timer periods of hart 0 in one run
MAX_VMA == 2          \* VMA slots of a process

\* riscv.h
PGSIZE == 4096

\* Interrupt identifiers (memlayout.h).
UART0_IRQ == 10
VIRTIO0_IRQ == 1
E1000_IRQ == 33

CPUS == {1, 2}
HARTS == {0, 1}
IRQS == {UART0_IRQ, VIRTIO0_IRQ, E1000_IRQ}

\* scause: the interrupt bit (bit 63) and the exception code.
SCAUSE_EXTERNAL == [intr |-> TRUE, code |-> 9]     \* 0x8000000000000009
SCAUSE_TIMER == [intr |-> TRUE, code |-> 5]        \* 0x8000000000000005
SCAUSE_SYSCALL == [intr |-> FALSE, code |-> 8]
SCAUSE_LOAD_FAULT == [intr |-> FALSE, code |-> 13]   \* 0xd
SCAUSE_STORE_FAULT == [intr |-> FALSE, code |-> 15]  \* 0xf
SCAUSE_EXEC_FAULT == [intr |-> FALSE, code |-> 12]   \* 0xc
SCAUSE_ILLEGAL == [intr |-> FALSE, code |-> 2]       \* a cause no branch handles
TxIdx == 0 .. (TX_RING_SIZE - 1)
RxIdx == 0 .. (RX_RING_SIZE - 1)
Pages == 1 .. NPAGES

VARIABLES
  lock,       \* e1000_lock: 0 when free, else the cpu holding it
  regs,       \* the device registers the driver uses: TDT, TDH, RDT, RDH, ICR
  tx_ring,    \* TxIdx -> [addr, length, cmd, status]; status is the DD bit
  tx_bufs,    \* TxIdx -> page or 0
  rx_ring,    \* RxIdx -> [addr, length, status]
  rx_bufs,    \* RxIdx -> page or 0
  owner,      \* page -> "free" | "rx" | "tx" | "caller" | "stack"
  freelist,   \* the allocator's free list, head first
  nkept,      \* buffers net_rx has kept (queued for a socket) so far
  tpc, ttail, tbuf, tret,     \* per cpu: e1000_transmit's position and locals
  rpc, rtail, rbuf, rlen,     \* per cpu: e1000_intr/e1000_recv's position and locals
  exam,       \* per cpu: DD bit of tx_ring[TDT % N] when transmit examined it
  anyComp,    \* has the device completed a transmit descriptor since init
  nsucc,      \* successful transmits while anyComp is false
  rxlog,      \* per cpu: <<index, buffer>> handed to net_rx by the current e1000_recv
  rstart,     \* per cpu: RDT as the current e1000_recv read it
  rrun,       \* per cpu: descriptors done in a row from (RDT + 1) % N at that read
  rquiet,     \* per cpu: the device received nothing since that read
  rinst,      \* per cpu: <<index, buffer>> installed by the current e1000_recv
  npkts,      \* packets received by the device so far
  replied,    \* per cpu: net_rx already transmitted during this delivery
  dfree,      \* a page was freed while already free
  pending,    \* PLIC: interrupt identifiers raised and not yet claimed
  claimed,    \* PLIC: <<identifier, hart>> claimed and not yet completed
  dpc, dscause, dirq, dret,   \* per hart: devintr's position, scause, irq, result
  dlog,       \* per hart: what the current devintr has called, in order
  stip,       \* per hart: the timer interrupt is pending
  tickslock,  \* 0 when free, else 1 + the hart holding it
  ticks,      \* the tick counter
  nper0,      \* timer interrupts hart 0 has taken
  upc,        \* usertrap's position; "user" while the process runs in user mode
  uscause, ustval, sepc,      \* the trap's scause, stval and sepc registers
  vma,        \* p->vma: slot -> [valid, addr, len, prot, file, offset]
  killed,     \* p->killed
  which_dev,  \* usertrap's local
  tf_epc,     \* p->trapframe->epc
  intr,       \* interrupts are enabled on the hart (sstatus.SIE)
  ui, find,   \* the page-fault loop's index and the flag find
  upa,        \* the page kalloc() gave the fault handler: "none", "held", "mapped", "freed"
  pte,        \* the mapping mappages installed: <<>> or <<[va, perm]>>
  upage,      \* what the page holds: n bytes of the file from off, then zeros
  ufile,      \* the size of the backing file when readi read it
  ulog,       \* what the current usertrap has called, in order
  kpc,        \* kerneltrap's position; "kernel" while kernel code runs
  csr,        \* the hart's trap registers in kernel mode: [sepc, sstatus, scause]
  ksave,      \* kerneltrap's locals sepc, sstatus, scause
  kwhich,     \* kerneltrap's local which_dev
  kproc,      \* myproc() != 0 on the hart
  kentry,     \* csr as it was on entry to the current kerneltrap
  knested     \* csr as yield() left it in the current kerneltrap

e1000vars == <<lock, regs, tx_ring, tx_bufs, rx_ring, rx_bufs, owner, freelist,
               nkept, tpc, ttail, tbuf, tret, rpc, rtail, rbuf, rlen, exam,
               anyComp, nsucc, rxlog, rstart, rrun, rquiet, rinst, npkts, replied, dfree>>

devvars == <<pending, claimed, dpc, dscause, dirq, dret, dlog>>
clockvars == <<stip, tickslock, ticks, nper0>>
uservars == <<upc, uscause, ustval, sepc, vma, killed, which_dev, tf_epc, intr,
              ui, find, upa, pte, upage, ufile, ulog>>
kernvars == <<kpc, csr, ksave, kwhich, kproc, kentry, knested>>
trapvars == <<devvars, clockvars, uservars, kernvars>>
vars == <<e1000vars, trapvars>>

(* ------------------------------ allocator ----------------------------- *)

\* kalloc(): the head of the free list, 0 when the list is empty.
kalloc_page == IF freelist = <<>> THEN 0 ELSE Head(freelist)

\* The free list and the ownership map after kalloc() returned page p to `who`.
AfterKalloc(p, who) ==
  /\ freelist' = Tail(freelist)
  /\ owner' = [owner EXCEPT ![p] = who]

\* kfree(p): p goes to the head of the free list.
AfterKfree(p) ==
  /\ freelist' = <<p>> \o freelist
  /\ owner' = [owner EXCEPT ![p] = "free"]
  /\ dfree' = (dfree \/ owner[p] = "free")

(* ------------------------------ e1000_init ---------------------------- *)

InitE1000 ==
  /\ lock = 0
  /\ regs = [TDT |-> 0, TDH |-> 0, RDT |-> RX_RING_SIZE - 1, RDH |-> 0, ICR |-> FALSE]
  /\ tx_ring = [i \in TxIdx |-> [addr |-> 0, length |-> 0, cmd |-> {}, status |-> TRUE]]
  /\ tx_bufs = [i \in TxIdx |-> 0]
  /\ rx_bufs = [i \in RxIdx |-> i + 1]
  /\ rx_ring = [i \in RxIdx |-> [addr |-> i + 1, length |-> 0, status |-> FALSE]]
  /\ owner = [p \in Pages |-> IF p <= RX_RING_SIZE THEN "rx" ELSE "free"]
  /\ freelist = [k \in 1 .. (NPAGES - RX_RING_SIZE) |-> RX_RING_SIZE + k]
  /\ nkept = 0
  /\ tpc = [c \in CPUS |-> "idle"]
  /\ ttail = [c \in CPUS |-> 0]
  /\ tbuf = [c \in CPUS |-> 0]
  /\ tret = [c \in CPUS |-> 0]
  /\ rpc = [c \in CPUS |-> "idle"]
  /\ rtail = [c \in CPUS |-> 0]
  /\ rbuf = [c \in CPUS |-> 0]
  /\ rlen = [c \in CPUS |-> 0]
  /\ exam = [c \in CPUS |-> FALSE]
  /\ anyComp = FALSE
  /\ nsucc = 0
  /\ rxlog = [c \in CPUS |-> <<>>]
  /\ rstart = [c \in CPUS |-> 0]
  /\ rrun = [c \in CPUS |-> 0]
  /\ rquiet = [c \in CPUS |-> TRUE]
  /\ rinst = [c \in CPUS |-> <<>>]
  /\ npkts = 0
  /\ replied = [c \in CPUS |-> FALSE]
  /\ dfree = FALSE

txring == <<tx_ring, tx_bufs>>
rxring == <<rx_ring, rx_bufs>>
mem == <<owner, freelist, dfree>>
txlocals == <<tpc, ttail, tbuf, tret, exam>>
rxlocals == <<rpc, rtail, rbuf, rlen, rxlog, rstart, rrun, rquiet, rinst>>
txghost == <<anyComp, nsucc, nkept>>

(* ---------------------------- spinlock ------------------------------- *)

\* holding(&e1000_lock) on cpu c.
holding(c) == lock = c

(* --------------------------- e1000_transmit --------------------------- *)

\* tail = regs[E1000_TDT] % TX_RING_SIZE
TxTail == regs.TDT % TX_RING_SIZE

\* A transmit that never tests the DD bit.
TxDone_NoTest(tail) == TRUE

\* tx_ring[tail].status & E1000_TXD_STAT_DD
TxDone(tail) == tx_ring[tail].status

\* The descriptor e1000_transmit programs for buffer buf of length len.
TxDesc(buf, len) ==
  [addr |-> buf, length |-> len, cmd |-> {"EOP", "RS"}, status |-> FALSE]

\* regs[E1000_TDT] = (tail + 1) % TX_RING_SIZE
TxAdvance(tail) == (tail + 1) % TX_RING_SIZE

\* A caller (the network stack's send path, or net_rx answering a packet)
\* allocates a buffer and calls e1000_transmit(buf, len) on cpu c.
T_call(c) ==
  /\ tpc[c] = "idle"
  /\ \/ rpc[c] = "idle" /\ UNCHANGED replied
     \/ rpc[c] = "netrx" /\ ~replied[c] /\ replied' = [replied EXCEPT ![c] = TRUE]
  /\ kalloc_page # 0
  /\ AfterKalloc(kalloc_page, "caller")
  /\ tbuf' = [tbuf EXCEPT ![c] = kalloc_page]
  /\ tpc' = [tpc EXCEPT ![c] = "acquire"]
  /\ UNCHANGED <<lock, regs, txring, rxring, nkept, ttail, tret, exam,
                 rxlocals, anyComp, nsucc, npkts, dfree>>
  /\ UNCHANGED trapvars

\* acquire(&e1000_lock): spins while another cpu holds the lock and panics
\* when this cpu already holds it.
T_acquire(c) ==
  /\ tpc[c] = "acquire"
  /\ \/ lock = 0 /\ lock' = c /\ tpc' = [tpc EXCEPT ![c] = "check"]
     \/ holding(c) /\ UNCHANGED lock /\ tpc' = [tpc EXCEPT ![c] = "panic"]
  /\ UNCHANGED <<regs, txring, rxring, mem, ttail, tbuf, tret, exam,
                 rxlocals, txghost, npkts, replied>>
  /\ UNCHANGED trapvars

\* Lines 99-106: read the tail and test the descriptor's DD bit.
T_check(c) ==
  /\ tpc[c] = "check"
  /\ ttail' = [ttail EXCEPT ![c] = TxTail]
  /\ exam' = [exam EXCEPT ![c] = tx_ring[regs.TDT % TX_RING_SIZE].status]
  /\ tpc' = [tpc EXCEPT ![c] = IF TxDone(TxTail) THEN "fill" ELSE "error"]
  /\ UNCHANGED <<lock, regs, txring, rxring, mem, tbuf, tret, rxlocals,
                 txghost, npkts, replied>>
  /\ UNCHANGED trapvars

\* A transmit that frees the buffer of the slot after the one it reuses.
TxOld_Next(tail) == tx_bufs[(tail + 1) % TX_RING_SIZE]

\* Lines 108-110: the buffer the slot held, tx_bufs[tail].
TxOld(tail) == tx_bufs[tail]

\* Lines 108-121: free the slot's old buffer, install buf, program the
\* descriptor, advance TDT.
T_fill(c) ==
  /\ tpc[c] = "fill"
  /\ LET tail == ttail[c]
         old == TxOld(tail)
     IN /\ IF old # 0
             THEN /\ freelist' = <<old>> \o freelist
                  /\ owner' = [owner EXCEPT ![old] = "free", ![tbuf[c]] = "tx"]
                  /\ dfree' = (dfree \/ owner[old] = "free")
             ELSE /\ owner' = [owner EXCEPT ![tbuf[c]] = "tx"]
                  /\ UNCHANGED <<freelist, dfree>>
        /\ tx_bufs' = [tx_bufs EXCEPT ![tail] = tbuf[c]]
        /\ tx_ring' = [tx_ring EXCEPT ![tail] = TxDesc(tbuf[c], 1)]
        /\ regs' = [regs EXCEPT !.TDT = TxAdvance(tail)]
  /\ nsucc' = IF anyComp THEN 0 ELSE nsucc + 1
  /\ tpc' = [tpc EXCEPT ![c] = "release"]
  /\ UNCHANGED <<lock, rxring, nkept, ttail, tbuf, tret, exam, rxlocals,
                 anyComp, npkts, replied>>
  /\ UNCHANGED trapvars

\* Lines 122-123: release(&e1000_lock); return 0.
T_release(c) ==
  /\ tpc[c] = "release"
  /\ lock' = 0
  /\ tret' = [tret EXCEPT ![c] = 0]
  /\ tpc' = [tpc EXCEPT ![c] = "ret"]
  /\ UNCHANGED <<regs, txring, rxring, mem, ttail, tbuf, exam, rxlocals,
                 txghost, npkts, replied>>
  /\ UNCHANGED trapvars

\* An error path that returns -1 with the lock still held.
T_error_NoRelease(c) ==
  /\ tpc[c] = "error"
  /\ tret' = [tret EXCEPT ![c] = -1]
  /\ tpc' = [tpc EXCEPT ![c] = "ret"]
  /\ UNCHANGED <<lock, regs, txring, rxring, mem, ttail, tbuf, exam, rxlocals,
                 txghost, npkts, replied>>
  /\ UNCHANGED trapvars

\* Lines 125-127: error: if (holding(&e1000_lock)) release; return -1.
T_error(c) ==
  /\ tpc[c] = "error"
  /\ lock' = IF holding(c) THEN 0 ELSE lock
  /\ tret' = [tret EXCEPT ![c] = -1]
  /\ tpc' = [tpc EXCEPT ![c] = "ret"]
  /\ UNCHANGED <<regs, txring, rxring, mem, ttail, tbuf, exam, rxlocals,
                 txghost, npkts, replied>>
  /\ UNCHANGED trapvars

\* The caller takes the result: after a failure the buffer is still the
\* caller's, and the caller frees it.
T_return(c) ==
  /\ tpc[c] = "ret"
  /\ IF tret[c] = -1 THEN AfterKfree(tbuf[c]) ELSE UNCHANGED mem
  /\ tbuf' = [tbuf EXCEPT ![c] = 0]
  /\ tpc' = [tpc EXCEPT ![c] = "idle"]
  /\ UNCHANGED <<lock, regs, txring, rxring, ttail, tret, exam, rxlocals,
                 txghost, npkts, replied>>
  /\ UNCHANGED trapvars

\* The device sends the descriptor at TDH and, RS being set, writes DD back.
HwTxComplete ==
  /\ regs.TDH # regs.TDT
  /\ tx_ring' = [tx_ring EXCEPT ![regs.TDH].status = TRUE]
  /\ regs' = [regs EXCEPT !.TDH = (regs.TDH + 1) % TX_RING_SIZE]
  /\ anyComp' = TRUE
  /\ nsucc' = 0
  /\ UNCHANGED <<lock, tx_bufs, rxring, mem, nkept, txlocals, rxlocals,
                 npkts, replied>>
  /\ UNCHANGED trapvars

TransmitBody(c) ==
  \/ T_acquire(c)
  \/ T_check(c)
  \/ T_fill(c)
  \/ T_release(c)
  \/ T_error(c)
  \/ T_return(c)

(* ----------------------- e1000_intr / e1000_recv ---------------------- *)

\* tail = (regs[E1000_RDT] + 1) % RX_RING_SIZE
RxHead == (regs.RDT + 1) % RX_RING_SIZE

\* rx_ring[tail].status & E1000_RXD_STAT_DD
RxDone(tail) == rx_ring[tail].status

\* The number of descriptors in a row, from index start on, whose DD bit is
\* set: what the loop of lines 139-157 finds when the device stays silent.
RxRun(start) ==
  CHOOSE n \in 0..RX_RING_SIZE :
    /\ \A k \in 0..(n - 1) : rx_ring[(start + k) % RX_RING_SIZE].status
    /\ n < RX_RING_SIZE => ~rx_ring[(start + n) % RX_RING_SIZE].status

\* A loop that never moves to the next descriptor.
RxAdvance_Stay(tail) == tail

\* tail = (tail + 1) % RX_RING_SIZE
RxAdvance(tail) == (tail + 1) % RX_RING_SIZE

\* A refill that sets RDT to the slot after the one refilled.
RxNewTail_Next(tail) == (tail + 1) % RX_RING_SIZE

\* The value e1000_recv writes to RDT after refilling slot tail.
RxNewTail(tail) == tail

\* A refill that puts the delivered buffer back instead of a new one.
RxRefillBuf_Reuse(c) == rbuf[c]

\* The buffer e1000_recv installs in a drained slot: kalloc()'s result.
RxRefillBuf(c) == kalloc_page

\* A delivery made with the lock still held.
RxUnlock_Keep(c) == lock

\* The lock after e1000_recv's release before net_rx, on cpu c.
RxUnlock(c) == 0

\* e1000_intr is entered on cpu c.
I_call(c) ==
  /\ rpc[c] = "idle" /\ tpc[c] = "idle"
  /\ rpc' = [rpc EXCEPT ![c] = "ack"]
  /\ rxlog' = [rxlog EXCEPT ![c] = <<>>]
  /\ rinst' = [rinst EXCEPT ![c] = <<>>]
  /\ UNCHANGED <<lock, regs, txring, rxring, mem, txlocals, rtail, rbuf,
                 rlen, rstart, rrun, rquiet, txghost, npkts, replied>>
  /\ UNCHANGED trapvars

\* An interrupt entry that leaves the cause register as it is.
IcrAck_Keep(icr) == icr

\* Line 165: regs[E1000_ICR] = 0xffffffff clears every pending cause.
IcrAck(icr) == FALSE

\* Line 165: regs[E1000_ICR] = 0xffffffff.
I_ack(c) ==
  /\ rpc[c] = "ack"
  /\ regs' = [regs EXCEPT !.ICR = IcrAck(regs.ICR)]
  /\ rpc' = [rpc EXCEPT ![c] = "acquire"]
  /\ UNCHANGED <<lock, txring, rxring, mem, txlocals, rtail, rbuf, rlen,
                 rxlog, rstart, rrun, rquiet, rinst, txghost, npkts, replied>>
  /\ UNCHANGED trapvars

\* Line 137: acquire(&e1000_lock).
R_acquire(c) ==
  /\ rpc[c] = "acquire"
  /\ \/ lock = 0 /\ lock' = c /\ rpc' = [rpc EXCEPT ![c] = "tail"]
     \/ holding(c) /\ UNCHANGED lock /\ rpc' = [rpc EXCEPT ![c] = "panic"]
  /\ UNCHANGED <<regs, txring, rxring, mem, txlocals, rtail, rbuf, rlen,
                 rxlog, rstart, rrun, rquiet, rinst, txghost, npkts, replied>>
  /\ UNCHANGED trapvars

\* Line 138: read RDT.
R_tail(c) ==
  /\ rpc[c] = "tail"
  /\ rtail' = [rtail EXCEPT ![c] = RxHead]
  /\ rstart' = [rstart EXCEPT ![c] = regs.RDT]
  /\ rrun' = [rrun EXCEPT ![c] = RxRun((regs.RDT + 1) % RX_RING_SIZE)]
  /\ rquiet' = [rquiet EXCEPT ![c] = TRUE]
  /\ rpc' = [rpc EXCEPT ![c] = "test"]
  /\ UNCHANGED <<lock, regs, txring, rxring, mem, txlocals, rbuf, rlen,
                 rxlog, rinst, txghost, npkts, replied>>
  /\ UNCHANGED trapvars

\* Lines 139-143: the loop condition, then the reads of the buffer and length.
R_test(c) ==
  /\ rpc[c] = "test"
  /\ IF RxDone(rtail[c])
       THEN /\ rbuf' = [rbuf EXCEPT ![c] = rx_bufs[rtail[c]]]
            /\ rlen' = [rlen EXCEPT ![c] = rx_ring[rtail[c]].length]
            /\ rpc' = [rpc EXCEPT ![c] = "unlock"]
       ELSE /\ rpc' = [rpc EXCEPT ![c] = "exit"]
            /\ UNCHANGED <<rbuf, rlen>>
  /\ UNCHANGED <<lock, regs, txring, rxring, mem, txlocals, rtail, rxlog,
                 rstart, rrun, rquiet, rinst, txghost, npkts, replied>>
  /\ UNCHANGED trapvars

\* Line 145: release(&e1000_lock) before the delivery.
R_unlock(c) ==
  /\ rpc[c] = "unlock"
  /\ lock' = RxUnlock(c)
  /\ rpc' = [rpc EXCEPT ![c] = "deliver"]
  /\ UNCHANGED <<regs, txring, rxring, mem, txlocals, rtail, rbuf, rlen,
                 rxlog, rstart, rrun, rquiet, rinst, txghost, npkts, replied>>
  /\ UNCHANGED trapvars

\* Line 146: net_rx(buf, len) is called; the buffer is now the stack's.
R_deliver(c) ==
  /\ rpc[c] = "deliver"
  /\ rxlog' = [rxlog EXCEPT ![c] = Append(@, <<rtail[c], rbuf[c]>>)]
  /\ owner' = [owner EXCEPT ![rbuf[c]] = "stack"]
  /\ replied' = [replied EXCEPT ![c] = FALSE]
  /\ rpc' = [rpc EXCEPT ![c] = "netrx"]
  /\ UNCHANGED <<lock, regs, txring, rxring, freelist, dfree, txlocals,
                 rtail, rbuf, rlen, rstart, rrun, rquiet, rinst, txghost, npkts>>
  /\ UNCHANGED trapvars

\* net_rx returns, having freed the buffer or kept it (queued for a socket).
NetRxReturn(c) ==
  /\ rpc[c] = "netrx" /\ tpc[c] = "idle"
  /\ \/ AfterKfree(rbuf[c]) /\ UNCHANGED nkept
     \/ /\ nkept < MaxHeld
        /\ nkept' = nkept + 1
        /\ UNCHANGED mem
  /\ rpc' = [rpc EXCEPT ![c] = "reacquire"]
  /\ UNCHANGED <<lock, regs, txring, rxring, txlocals, rtail, rbuf, rlen, rxlog,
                 rstart, rrun, rquiet, rinst, anyComp, nsucc, npkts, replied>>
  /\ UNCHANGED trapvars

\* A receive that goes on to the refill without taking the lock again.
R_reacquire_Skip(c) ==
  /\ rpc[c] = "reacquire"
  /\ rpc' = [rpc EXCEPT ![c] = "refill"]
  /\ UNCHANGED <<lock, regs, txring, rxring, mem, txlocals, rtail, rbuf, rlen,
                 rxlog, rstart, rrun, rquiet, rinst, txghost, npkts, replied>>
  /\ UNCHANGED trapvars

\* Line 147: acquire(&e1000_lock) after the delivery.
R_reacquire(c) ==
  /\ rpc[c] = "reacquire"
  /\ \/ lock = 0 /\ lock' = c /\ rpc' = [rpc EXCEPT ![c] = "refill"]
     \/ holding(c) /\ UNCHANGED lock /\ rpc' = [rpc EXCEPT ![c] = "panic"]
  /\ UNCHANGED <<regs, txring, rxring, mem, txlocals, rtail, rbuf, rlen,
                 rxlog, rstart, rrun, rquiet, rinst, txghost, npkts, replied>>
  /\ UNCHANGED trapvars

\* Lines 149-156: install a new buffer, clear the status, write RDT, advance.
R_refill(c) ==
  /\ rpc[c] = "refill"
  /\ LET tail == rtail[c]
         new == RxRefillBuf(c)
     IN IF new = 0
          THEN /\ rx_bufs' = [rx_bufs EXCEPT ![tail] = 0]
               /\ rpc' = [rpc EXCEPT ![c] = "panic"]
               /\ UNCHANGED <<regs, rx_ring, mem, rtail, rinst>>
          ELSE /\ rx_bufs' = [rx_bufs EXCEPT ![tail] = new]
               /\ IF new = kalloc_page
                    THEN AfterKalloc(new, "rx") /\ UNCHANGED dfree
                    ELSE UNCHANGED mem
               /\ rx_ring' = [rx_ring EXCEPT ![tail].addr = new,
                                             ![tail].status = FALSE]
               /\ regs' = [regs EXCEPT !.RDT = RxNewTail(tail)]
               /\ rtail' = [rtail EXCEPT ![c] = RxAdvance(tail)]
               /\ rinst' = [rinst EXCEPT ![c] = Append(@, <<tail, kalloc_page>>)]
               /\ rpc' = [rpc EXCEPT ![c] = "test"]
  /\ UNCHANGED <<lock, txring, txlocals, rbuf, rlen, rxlog, rstart, rrun, rquiet,
                 txghost, npkts, replied>>
  /\ UNCHANGED trapvars

\* Line 158: release(&e1000_lock); e1000_recv returns.
R_exit(c) ==
  /\ rpc[c] = "exit"
  /\ lock' = 0
  /\ rpc' = [rpc EXCEPT ![c] = "ret"]
  /\ UNCHANGED <<regs, txring, rxring, mem, txlocals, rtail, rbuf, rlen,
                 rxlog, rstart, rrun, rquiet, rinst, txghost, npkts, replied>>
  /\ UNCHANGED trapvars

\* e1000_intr returns to its caller.
I_return(c) ==
  /\ rpc[c] = "ret"
  /\ rpc' = [rpc EXCEPT ![c] = "idle"]
  /\ rxlog' = [rxlog EXCEPT ![c] = <<>>]
  /\ rinst' = [rinst EXCEPT ![c] = <<>>]
  /\ rstart' = [rstart EXCEPT ![c] = 0]
  /\ rrun' = [rrun EXCEPT ![c] = 0]
  /\ rquiet' = [rquiet EXCEPT ![c] = TRUE]
  /\ UNCHANGED <<lock, regs, txring, rxring, mem, txlocals, rtail, rbuf,
                 rlen, txghost, npkts, replied>>
  /\ UNCHANGED trapvars

\* The device writes a packet into the buffer of the descriptor at RDH, sets
\* DD and raises the interrupt cause; it stops when RDH reaches RDT.
HwRx(max) ==
  /\ npkts < max
  /\ regs.RDH # regs.RDT
  /\ rx_ring' = [rx_ring EXCEPT ![regs.RDH].status = TRUE, ![regs.RDH].length = 1]
  /\ regs' = [regs EXCEPT !.RDH = (regs.RDH + 1) % RX_RING_SIZE, !.ICR = TRUE]
  /\ npkts' = npkts + 1
  /\ rquiet' = [c \in CPUS |-> FALSE]
  /\ UNCHANGED <<lock, txring, rx_bufs, mem, txlocals, rpc, rtail, rbuf, rlen,
                 rxlog, rstart, rrun, rinst, txghost, replied>>
  /\ UNCHANGED trapvars

HwRxAll == HwRx(MaxRxPkts)

HwRxFew == HwRx(MaxReentPkts)

Intr(c) ==
  \/ I_call(c)
  \/ I_ack(c)
  \/ R_acquire(c)
  \/ R_tail(c)
  \/ R_test(c)
  \/ R_unlock(c)
  \/ R_deliver(c)
  \/ NetRxReturn(c)
  \/ R_reacquire(c)
  \/ R_refill(c)
  \/ R_exit(c)
  \/ I_return(c)

(* ------------------------------- devintr ------------------------------ *)


InitTrap ==
  /\ pending = {}
  /\ claimed = {}
  /\ dpc = [h \in HARTS |-> "idle"]
  /\ dscause = [h \in HARTS |-> SCAUSE_ILLEGAL]
  /\ dirq = [h \in HARTS |-> 0]
  /\ dret = [h \in HARTS |-> 0]
  /\ dlog = [h \in HARTS |-> <<>>]
  /\ stip = [h \in HARTS |-> FALSE]
  /\ tickslock = 0
  /\ ticks = 0
  /\ nper0 = 0

\* Lines 247-253: the function devintr calls for interrupt identifier irq.
DevHandler(irq) ==
  IF irq = UART0_IRQ THEN "uartintr"
  ELSE IF irq = VIRTIO0_IRQ THEN "virtio_disk_intr"
  ELSE IF irq # 0 THEN "printf"
  ELSE "none"

\* A devintr that never tells the PLIC it is done.
DevCompletes_Never(irq) == FALSE

\* Line 258: if (irq) plic_complete(irq).
DevCompletes(irq) == irq # 0

\* A clockintr that counts on every hart.
TicksHart_Any(h) == TRUE

\* Line 220: cpuid() == 0.
TicksHart(h) == h = 0

\* A device raises its interrupt; the PLIC forwards one request per device
\* until that request is completed.
DevRaise(irq) ==
  /\ irq \notin pending
  /\ \A h \in HARTS : <<irq, h>> \notin claimed
  /\ pending' = pending \cup {irq}
  /\ UNCHANGED <<claimed, dpc, dscause, dirq, dret, dlog, clockvars>>
  /\ UNCHANGED <<e1000vars, uservars, kernvars>>

\* The timer comparator of every hart in hs is reached at the same time.
TimerFire(hs) ==
  /\ hs # {}
  /\ \A h \in hs : ~stip[h]
  /\ stip' = [h \in HARTS |-> stip[h] \/ h \in hs]
  /\ UNCHANGED <<devvars, tickslock, ticks, nper0>>
  /\ UNCHANGED <<e1000vars, uservars, kernvars>>

\* Line 239: devintr() is entered on hart h with scause sc.
D_enter(h, sc) ==
  /\ dpc[h] = "idle"
  /\ sc = SCAUSE_EXTERNAL => pending # {}
  /\ sc = SCAUSE_TIMER => stip[h] /\ (h = 0 => nper0 < MaxTicks)
  /\ dscause' = [dscause EXCEPT ![h] = sc]
  /\ dlog' = [dlog EXCEPT ![h] = <<>>]
  /\ dirq' = [dirq EXCEPT ![h] = 0]
  /\ dpc' = [dpc EXCEPT ![h] = "scause"]
  /\ nper0' = IF sc = SCAUSE_TIMER /\ h = 0 THEN nper0 + 1 ELSE nper0
  /\ UNCHANGED <<pending, claimed, dret, stip, tickslock, ticks>>
  /\ UNCHANGED <<e1000vars, uservars, kernvars>>

\* Lines 241, 261, 265: the branch on scause.
D_classify(h) ==
  /\ dpc[h] = "scause"
  /\ IF dscause[h] = SCAUSE_EXTERNAL
       THEN dpc' = [dpc EXCEPT ![h] = "claim"] /\ UNCHANGED dret
       ELSE IF dscause[h] = SCAUSE_TIMER
         THEN dpc' = [dpc EXCEPT ![h] = "clockintr"] /\ UNCHANGED dret
         ELSE dpc' = [dpc EXCEPT ![h] = "ret"] /\ dret' = [dret EXCEPT ![h] = 0]
  /\ UNCHANGED <<pending, claimed, dscause, dirq, dlog, clockvars>>
  /\ UNCHANGED <<e1000vars, uservars, kernvars>>

\* Line 245: irq = plic_claim(): a pending identifier, or 0 when none is pending.
D_claim(h) ==
  /\ dpc[h] = "claim"
  /\ \/ \E irq \in pending :
          /\ pending' = pending \ {irq}
          /\ claimed' = claimed \cup {<<irq, h>>}
          /\ dirq' = [dirq EXCEPT ![h] = irq]
          /\ dlog' = [dlog EXCEPT ![h] = Append(@, <<"plic_claim", irq>>)]
     \/ /\ pending = {}
        /\ dirq' = [dirq EXCEPT ![h] = 0]
        /\ dlog' = [dlog EXCEPT ![h] = Append(@, <<"plic_claim", 0>>)]
        /\ UNCHANGED <<pending, claimed>>
  /\ dpc' = [dpc EXCEPT ![h] = "dispatch"]
  /\ UNCHANGED <<dscause, dret, clockvars>>
  /\ UNCHANGED <<e1000vars, uservars, kernvars>>

\* Lines 247-253: the dispatch on irq calls the device's handler.
D_dispatch(h) ==
  /\ dpc[h] = "dispatch"
  /\ IF DevHandler(dirq[h]) = "none"
       THEN dpc' = [dpc EXCEPT ![h] = "complete"] /\ UNCHANGED dlog
       ELSE /\ dlog' = [dlog EXCEPT ![h] = Append(@, <<DevHandler(dirq[h]), dirq[h]>>)]
            /\ dpc' = [dpc EXCEPT ![h] = "handler"]
  /\ UNCHANGED <<pending, claimed, dscause, dirq, dret, clockvars>>
  /\ UNCHANGED <<e1000vars, uservars, kernvars>>

\* The handler returns.
D_handled(h) ==
  /\ dpc[h] = "handler"
  /\ dlog' = [dlog EXCEPT ![h] = Append(@, <<"return", dirq[h]>>)]
  /\ dpc' = [dpc EXCEPT ![h] = "complete"]
  /\ UNCHANGED <<pending, claimed, dscause, dirq, dret, clockvars>>
  /\ UNCHANGED <<e1000vars, uservars, kernvars>>

\* Lines 258-260: if (irq) plic_complete(irq); return 1.
D_complete(h) ==
  /\ dpc[h] = "complete"
  /\ IF DevCompletes(dirq[h])
       THEN /\ claimed' = claimed \ {<<dirq[h], h>>}
            /\ dlog' = [dlog EXCEPT ![h] = Append(@, <<"plic_complete", dirq[h]>>)]
       ELSE UNCHANGED <<claimed, dlog>>
  /\ dret' = [dret EXCEPT ![h] = 1]
  /\ dpc' = [dpc EXCEPT ![h] = "ret"]
  /\ UNCHANGED <<pending, dscause, dirq, clockvars>>
  /\ UNCHANGED <<e1000vars, uservars, kernvars>>

\* devintr's frame is gone once it has returned.
DevintrLocalsDead(h) ==
  /\ dscause' = [dscause EXCEPT ![h] = SCAUSE_ILLEGAL]
  /\ dirq' = [dirq EXCEPT ![h] = 0]
  /\ dret' = [dret EXCEPT ![h] = 0]
  /\ dlog' = [dlog EXCEPT ![h] = <<>>]

\* devintr's caller takes the result.
D_return(h) ==
  /\ dpc[h] = "ret"
  /\ dpc' = [dpc EXCEPT ![h] = "idle"]
  /\ DevintrLocalsDead(h)
  /\ UNCHANGED <<pending, claimed, clockvars>>
  /\ UNCHANGED <<e1000vars, uservars, kernvars>>

(* ------------------------------ clockintr ----------------------------- *)

\* Line 220: if (cpuid() == 0).
C_cpuid(h) ==
  /\ dpc[h] = "clockintr"
  /\ dpc' = [dpc EXCEPT ![h] = IF TicksHart(h) THEN "acquire" ELSE "stimecmp"]
  /\ UNCHANGED <<pending, claimed, dscause, dirq, dret, dlog, clockvars>>
  /\ UNCHANGED <<e1000vars, uservars, kernvars>>

\* Line 221: acquire(&tickslock).
C_acquire(h) ==
  /\ dpc[h] = "acquire"
  /\ tickslock = 0
  /\ tickslock' = h + 1
  /\ dpc' = [dpc EXCEPT ![h] = "ticks"]
  /\ UNCHANGED <<pending, claimed, dscause, dirq, dret, dlog, stip, ticks, nper0>>
  /\ UNCHANGED <<e1000vars, uservars, kernvars>>

\* Lines 222-223: ticks++; wakeup(&ticks).  ticks is a uint; the runs here
\* stay far below 2^32.
C_ticks(h) ==
  /\ dpc[h] = "ticks"
  /\ ticks' = ticks + 1
  /\ dpc' = [dpc EXCEPT ![h] = "release"]
  /\ UNCHANGED <<pending, claimed, dscause, dirq, dret, dlog, stip, tickslock, nper0>>
  /\ UNCHANGED <<e1000vars, uservars, kernvars>>

\* Line 224: release(&tickslock).
C_release(h) ==
  /\ dpc[h] = "release"
  /\ tickslock' = 0
  /\ dpc' = [dpc EXCEPT ![h] = "stimecmp"]
  /\ UNCHANGED <<pending, claimed, dscause, dirq, dret, dlog, stip, ticks, nper0>>
  /\ UNCHANGED <<e1000vars, uservars, kernvars>>

\* Lines 230, 264: w_stimecmp(r_time() + 1000000) clears the request; return 2.
C_stimecmp(h) ==
  /\ dpc[h] = "stimecmp"
  /\ stip' = [stip EXCEPT ![h] = FALSE]
  /\ dret' = [dret EXCEPT ![h] = 2]
  /\ dpc' = [dpc EXCEPT ![h] = "ret"]
  /\ UNCHANGED <<pending, claimed, dscause, dirq, dlog, tickslock, ticks, nper0>>
  /\ UNCHANGED <<e1000vars, uservars, kernvars>>

Devintr(h) ==
  \/ D_classify(h)
  \/ D_claim(h)
  \/ D_dispatch(h)
  \/ D_handled(h)
  \/ D_complete(h)

Clockintr(h) ==
  \/ C_cpuid(h)
  \/ C_acquire(h)
  \/ C_ticks(h)
  \/ C_release(h)
  \/ C_stimecmp(h)

(* ------------------------------- usertrap ----------------------------- *)

PGROUNDDOWN(a) == a - (a % PGSIZE)

IsPageFault(sc) ==
  sc = SCAUSE_LOAD_FAULT \/ sc = SCAUSE_STORE_FAULT \/ sc = SCAUSE_EXEC_FAULT

\* A range test that every address passes.
InVma_Any(va, v) == TRUE

\* Line 70: va >= vma->addr && va < vma->addr + vma->len.
InVma(va, v) == va >= v.addr /\ va < v.addr + v.len

\* A fault path that never looks at the protection.
ProtExcludes_Never(sc, prot) == FALSE

\* Lines 72-74: the access kind of the fault is not in the VMA's protection.
ProtExcludes(sc, prot) ==
  \/ sc = SCAUSE_LOAD_FAULT /\ "PROT_READ" \notin prot
  \/ sc = SCAUSE_EXEC_FAULT /\ "PROT_EXEC" \notin prot
  \/ sc = SCAUSE_STORE_FAULT /\ "PROT_WRITE" \notin prot

\* Lines 89-92: the PTE flags for a protection mask.
PteFlags(prot) ==
  {"PTE_U"} \cup (IF "PROT_READ" \in prot THEN {"PTE_R"} ELSE {})
            \cup (IF "PROT_WRITE" \in prot THEN {"PTE_W"} ELSE {})
            \cup (IF "PROT_EXEC" \in prot THEN {"PTE_X"} ELSE {})

\* A system-call path without the test of line 49.
SyscallChecksKilled_No == FALSE

\* Line 87: memset(pa, 0, PGSIZE).  A page is described by the file bytes
\* it holds: n bytes of the file from offset off on, and zeros after them.
ZeroPage == [off |-> 0, n |-> 0]

\* A read offset that leaves out the VMA's offset into the file.
ReadOffset_NoVmaOffset(va, v) == PGROUNDDOWN(va) - v.addr

\* Line 104: PGROUNDDOWN(va) - vma->addr + vma->offset.
ReadOffset(va, v) == PGROUNDDOWN(va) - v.addr + v.offset

\* readi(ip, 0, dst, off, n) on a file of size bytes, when it does not fail:
\* the number of bytes it copies to dst, none past the end of the file.
readi(size, off, n) ==
  IF off > size THEN 0
  ELSE IF off + n > size THEN size - off
  ELSE n

\* The sizes the backing file may have when it is read.
FileSizes == {0, 100, PGSIZE, PGSIZE + 100, 3 * PGSIZE}

\* Line 49: if (killed(p)) exit(-1) stands before the system call.
SyscallChecksKilled == TRUE

Prots == SUBSET {"PROT_READ", "PROT_WRITE", "PROT_EXEC"}

\* The VMA tables the process may have: valid slots are disjoint.
VmaSlotFirst ==
  {[valid |-> v, addr |-> PGSIZE, len |-> 2 * PGSIZE, prot |-> pr,
    file |-> IF o < 0 THEN 0 ELSE 1, offset |-> IF o < 0 THEN 0 ELSE o] :
     v \in BOOLEAN, pr \in Prots, o \in {-1, 0, PGSIZE}}

VmaSlotRest ==
  {[valid |-> a = 3 * PGSIZE, addr |-> a, len |-> PGSIZE,
    prot |-> {"PROT_READ", "PROT_WRITE"}, file |-> 0, offset |-> 0] :
     a \in {PGSIZE, 3 * PGSIZE}}

VmaDisjoint(t) ==
  \A i, j \in DOMAIN t :
    (i # j /\ t[i].valid /\ t[j].valid) =>
      (t[i].addr + t[i].len <= t[j].addr \/ t[j].addr + t[j].len <= t[i].addr)

VmaTables ==
  {t \in {[i \in 0 .. (MAX_VMA - 1) |-> IF i = 0 THEN f ELSE r[i]] :
             f \in VmaSlotFirst, r \in [1 .. (MAX_VMA - 1) -> VmaSlotRest]} :
     VmaDisjoint(t)}

\* The table of a process that has mapped nothing.
NoVma ==
  [i \in 0 .. (MAX_VMA - 1) |->
     [valid |-> FALSE, addr |-> 0, len |-> 0, prot |-> {}, file |-> 0, offset |-> 0]]

FaultVAs == {0, PGSIZE + 8, 2 * PGSIZE + 4, 3 * PGSIZE}

UserScauses ==
  {SCAUSE_SYSCALL, SCAUSE_LOAD_FAULT, SCAUSE_STORE_FAULT, SCAUSE_EXEC_FAULT,
   SCAUSE_EXTERNAL, SCAUSE_TIMER, SCAUSE_ILLEGAL}

InitUser ==
  /\ upc = "user"
  /\ uscause = SCAUSE_ILLEGAL
  /\ ustval = 0
  /\ sepc = 12
  /\ vma = NoVma
  /\ killed = FALSE
  /\ which_dev = 0
  /\ tf_epc = 12
  /\ intr = TRUE
  /\ ui = 0
  /\ find = 0
  /\ upa = "none"
  /\ pte = <<>>
  /\ upage = ZeroPage
  /\ ufile = 0
  /\ ulog = <<>>

\* The process, running in user mode on hart 0 with VMA table t, traps: the
\* hardware sets scause, stval and sepc and clears the interrupt enable.
\* stval and the table are kept only for the page faults, which read them.
U_trap(sc, va, t) ==
  /\ upc = "user" /\ dpc[0] = "idle"
  /\ sc = SCAUSE_EXTERNAL => pending # {}
  /\ sc = SCAUSE_TIMER => stip[0] /\ nper0 < MaxTicks
  /\ upc' = "entry"
  /\ uscause' = sc
  /\ ustval' = IF IsPageFault(sc) THEN va ELSE 0
  /\ sepc' = 12
  /\ intr' = FALSE
  /\ which_dev' = 0
  /\ ui' = 0
  /\ find' = 0
  /\ upa' = "none"
  /\ pte' = <<>>
  /\ upage' = ZeroPage
  /\ ufile' = 0
  /\ ulog' = <<>>
  /\ vma' = IF IsPageFault(sc) THEN t ELSE NoVma
  /\ UNCHANGED <<killed, tf_epc>>
  /\ UNCHANGED <<e1000vars, devvars, clockvars, kernvars>>

\* Another process marks p killed (kill()).
Kill ==
  /\ upc # "exited" /\ ~killed
  /\ killed' = TRUE
  /\ UNCHANGED <<upc, uscause, ustval, sepc, vma, which_dev, tf_epc, intr, ui,
                 find, upa, pte, upage, ufile, ulog>>
  /\ UNCHANGED <<e1000vars, devvars, clockvars, kernvars>>

\* Lines 35-46: p->trapframe->epc = r_sepc(), then the branch on scause == 8.
U_entry ==
  /\ upc = "entry"
  /\ tf_epc' = sepc
  /\ ulog' = Append(ulog, "save_epc")
  /\ upc' = IF uscause = SCAUSE_SYSCALL THEN "syskilled" ELSE "devintr"
  /\ UNCHANGED <<uscause, ustval, sepc, vma, killed, which_dev, intr, ui, find,
                 upa, pte, upage, ufile>>
  /\ UNCHANGED <<e1000vars, devvars, clockvars, kernvars>>

\* A system call path that leaves the saved program counter on the ecall.
SyscallEpc_Same(epc) == epc

\* Line 53: p->trapframe->epc += 4.
SyscallEpc(epc) == epc + 4

\* Line 49: if (killed(p)) exit(-1); line 53: p->trapframe->epc += 4.
U_syskilled ==
  /\ upc = "syskilled"
  /\ IF SyscallChecksKilled /\ killed
       THEN /\ upc' = "exited"
            /\ ulog' = Append(ulog, "exit")
            /\ UNCHANGED tf_epc
       ELSE /\ upc' = "intr_on"
            /\ tf_epc' = SyscallEpc(tf_epc)
            /\ ulog' = Append(ulog, "epc+4")
  /\ UNCHANGED <<uscause, ustval, sepc, vma, killed, which_dev, intr, ui, find,
                 upa, pte, upage, ufile>>
  /\ UNCHANGED <<e1000vars, devvars, clockvars, kernvars>>

\* Line 57: intr_on().
U_intr_on ==
  /\ upc = "intr_on"
  /\ intr' = TRUE
  /\ ulog' = Append(ulog, "intr_on")
  /\ upc' = "syscall"
  /\ UNCHANGED <<uscause, ustval, sepc, vma, killed, which_dev, tf_epc, ui, find,
                 upa, pte, upage, ufile>>
  /\ UNCHANGED <<e1000vars, devvars, clockvars, kernvars>>

\* Line 59: syscall().
U_syscall ==
  /\ upc = "syscall"
  /\ ulog' = Append(ulog, "syscall")
  /\ upc' = "tail"
  /\ UNCHANGED <<uscause, ustval, sepc, vma, killed, which_dev, tf_epc, intr, ui,
                 find, upa, pte, upage, ufile>>
  /\ UNCHANGED <<e1000vars, devvars, clockvars, kernvars>>

\* Line 60: devintr() is called.
U_devintr ==
  /\ upc = "devintr" /\ dpc[0] = "idle"
  /\ dscause' = [dscause EXCEPT ![0] = uscause]
  /\ dlog' = [dlog EXCEPT ![0] = <<>>]
  /\ dirq' = [dirq EXCEPT ![0] = 0]
  /\ dpc' = [dpc EXCEPT ![0] = "scause"]
  /\ nper0' = IF uscause = SCAUSE_TIMER THEN nper0 + 1 ELSE nper0
  /\ upc' = "indev"
  /\ ulog' = Append(ulog, "devintr")
  /\ UNCHANGED <<pending, claimed, dret, stip, tickslock, ticks>>
  /\ UNCHANGED <<uscause, ustval, sepc, vma, killed, which_dev, tf_epc, intr, ui,
                 find, upa, pte, upage, ufile>>
  /\ UNCHANGED <<e1000vars, kernvars>>

\* Lines 60-63, 133-137: devintr() returned; the branch on its result and on
\* the page-fault causes; any other cause marks the process killed.
U_devret ==
  /\ upc = "indev" /\ dpc[0] = "ret"
  /\ dpc' = [dpc EXCEPT ![0] = "idle"]
  /\ which_dev' = dret[0]
  /\ IF dret[0] # 0
       THEN upc' = "tail" /\ UNCHANGED <<killed, ulog>>
       ELSE IF IsPageFault(uscause)
         THEN upc' = "scan" /\ UNCHANGED <<killed, ulog>>
         ELSE /\ upc' = "tail"
              /\ killed' = TRUE
              /\ ulog' = Append(ulog, "setkilled")
  /\ DevintrLocalsDead(0)
  /\ UNCHANGED <<pending, claimed, clockvars>>
  /\ UNCHANGED <<uscause, ustval, sepc, vma, tf_epc, intr, ui, find, upa, pte, upage, ufile>>
  /\ UNCHANGED <<e1000vars, kernvars>>

\* Lines 66-80: one iteration of the loop over p->vma up to the protection
\* check.
U_scan ==
  /\ upc = "scan"
  /\ IF ui >= MAX_VMA
       THEN upc' = "after" /\ UNCHANGED <<ui, killed, ulog>>
       ELSE IF ~vma[ui].valid \/ ~InVma(ustval, vma[ui])
         THEN upc' = "scan" /\ ui' = ui + 1 /\ UNCHANGED <<killed, ulog>>
         ELSE IF ProtExcludes(uscause, vma[ui].prot)
           THEN /\ upc' = "after"
                /\ killed' = TRUE
                /\ ulog' = Append(ulog, "setkilled")
                /\ UNCHANGED ui
           ELSE upc' = "kalloc" /\ UNCHANGED <<ui, killed, ulog>>
  /\ UNCHANGED <<uscause, ustval, sepc, vma, which_dev, tf_epc, intr, find, upa,
                 pte, upage, ufile>>
  /\ UNCHANGED <<e1000vars, devvars, clockvars, kernvars>>

\* Lines 81-101: pa = kalloc(), which may fail; memset; flag; find = 1.
U_kalloc(ok) ==
  /\ upc = "kalloc"
  /\ IF ~ok
       THEN /\ upc' = "after"
            /\ killed' = TRUE
            /\ ulog' = ulog \o <<"kalloc0", "setkilled">>
            /\ UNCHANGED <<upa, find, upage>>
       ELSE /\ upa' = "held"
            /\ upage' = ZeroPage
            /\ find' = 1
            /\ ulog' = Append(ulog, "kalloc")
            /\ upc' = IF vma[ui].file # 0 THEN "readi" ELSE "mappages"
            /\ UNCHANGED killed
  /\ UNCHANGED <<uscause, ustval, sepc, vma, which_dev, tf_epc, intr, ui, pte,
                 ufile>>
  /\ UNCHANGED <<e1000vars, devvars, clockvars, kernvars>>

\* A fault handler whose failure paths keep the page.
FreesOnFailure_Never(step) == FALSE

\* Lines 110, 119: kfree(pa) on the failure paths of readi and mappages;
\* when kalloc fails there is no page.
FreesOnFailure(step) == step \in {"readi", "mappages"}

\* What a failure of step does: kfree(pa) when there is a page, setkilled(p).
FailureCalls(step) ==
  <<step>> \o (IF FreesOnFailure(step) THEN <<"kfree">> ELSE <<>>) \o <<"setkilled">>

\* Lines 103-115: the read of the backing file, which may fail.
U_readi(ok) ==
  /\ upc = "readi"
  /\ IF ~ok
       THEN /\ upa' = IF FreesOnFailure("readi") THEN "freed" ELSE upa
            /\ killed' = TRUE
            /\ ulog' = ulog \o FailureCalls("readi")
            /\ upc' = "after"
            /\ UNCHANGED <<upage, ufile>>
       ELSE /\ \E sz \in FileSizes :
                 /\ ufile' = sz
                 /\ upage' = [off |-> ReadOffset(ustval, vma[ui]),
                              n |-> readi(sz, ReadOffset(ustval, vma[ui]), PGSIZE)]
            /\ ulog' = Append(ulog, "readi")
            /\ upc' = "mappages"
            /\ UNCHANGED <<upa, killed>>
  /\ UNCHANGED <<uscause, ustval, sepc, vma, which_dev, tf_epc, intr, ui, find,
                 pte>>
  /\ UNCHANGED <<e1000vars, devvars, clockvars, kernvars>>

\* Lines 117-124: mappages(), which may fail.
U_mappages(ok) ==
  /\ upc = "mappages"
  /\ IF ~ok
       THEN /\ upa' = IF FreesOnFailure("mappages") THEN "freed" ELSE upa
            /\ killed' = TRUE
            /\ ulog' = ulog \o FailureCalls("mappages")
            /\ UNCHANGED pte
       ELSE /\ upa' = "mapped"
            /\ pte' = <<[va |-> PGROUNDDOWN(ustval), perm |-> PteFlags(vma[ui].prot)]>>
            /\ ulog' = Append(ulog, "mappages")
            /\ UNCHANGED killed
  /\ upc' = "after"
  /\ UNCHANGED <<uscause, ustval, sepc, vma, which_dev, tf_epc, intr, ui, find,
                 upage, ufile>>
  /\ UNCHANGED <<e1000vars, devvars, clockvars, kernvars>>

\* Lines 127-132: if (find == 0) setkilled(p).
U_after ==
  /\ upc = "after"
  /\ IF find = 0
       THEN killed' = TRUE /\ ulog' = Append(ulog, "setkilled")
       ELSE UNCHANGED <<killed, ulog>>
  /\ upc' = "tail"
  /\ UNCHANGED <<uscause, ustval, sepc, vma, which_dev, tf_epc, intr, ui, find,
                 upa, pte, upage, ufile>>
  /\ UNCHANGED <<e1000vars, devvars, clockvars, kernvars>>

\* Lines 139-142: if (killed(p)) exit(-1); if (which_dev == 2) yield().
U_tail ==
  /\ upc = "tail"
  /\ IF killed
       THEN upc' = "exited" /\ ulog' = Append(ulog, "exit")
       ELSE /\ upc' = "usertrapret"
            /\ ulog' = IF which_dev = 2 THEN Append(ulog, "yield") ELSE ulog
  /\ UNCHANGED <<uscause, ustval, sepc, vma, killed, which_dev, tf_epc, intr, ui,
                 find, upa, pte, upage, ufile>>
  /\ UNCHANGED <<e1000vars, devvars, clockvars, kernvars>>

\* usertrap's frame is gone once it has returned to user mode.
UsertrapLocalsDead ==
  /\ uscause' = SCAUSE_ILLEGAL
  /\ ustval' = 0
  /\ vma' = NoVma
  /\ which_dev' = 0
  /\ ui' = 0
  /\ find' = 0
  /\ upa' = "none"
  /\ pte' = <<>>
  /\ upage' = ZeroPage
  /\ ufile' = 0
  /\ ulog' = <<>>

\* Lines 144, 150-189: usertrapret(): intr_off(), w_sepc(p->trapframe->epc),
\* sret to user mode with interrupts enabled.
U_usertrapret ==
  /\ upc = "usertrapret"
  /\ sepc' = tf_epc
  /\ intr' = TRUE
  /\ upc' = "user"
  /\ UsertrapLocalsDead
  /\ UNCHANGED <<killed, tf_epc>>
  /\ UNCHANGED <<e1000vars, devvars, clockvars, kernvars>>

\* Any trap from user mode.
UserTraps ==
  /\ upc = "user"
  /\ \E sc \in UserScauses, va \in FaultVAs, t \in VmaTables : U_trap(sc, va, t)

\* A device interrupt or the timer becomes pending while the process runs in
\* user mode.
UserDevRaise == upc = "user" /\ pending = {} /\ \E irq \in IRQS : DevRaise(irq)

UserTimerFire == upc = "user" /\ TimerFire({0})

Usertrap ==
  \/ U_entry
  \/ U_syskilled
  \/ U_intr_on
  \/ U_syscall
  \/ U_devintr
  \/ U_devret
  \/ U_scan
  \/ \E ok \in BOOLEAN : U_kalloc(ok)
  \/ \E ok \in BOOLEAN : U_readi(ok)
  \/ \E ok \in BOOLEAN : U_mappages(ok)
  \/ U_after
  \/ U_tail
  \/ U_usertrapret

(* ----------------------------- kerneltrap ------------------------------ *)

\* sstatus as the bits the handler reads: SPP, SPIE, SIE.
Sstatuses == [SPP : {0, 1}, SPIE : {0, 1}, SIE : {0, 1}]

\* sstatus after a trap taken in supervisor mode: SPP set, SIE cleared.
KernelSstatuses == {st \in Sstatuses : st.SPP = 1 /\ st.SIE = 0}

\* Addresses of kernel instructions a trap may interrupt.
KernelPcs == {2048, 2052, 4096}

\* The causes of traps taken in kernel mode.
KernelScauses == {SCAUSE_EXTERNAL, SCAUSE_TIMER, SCAUSE_LOAD_FAULT}

\* The values the trap registers may hold after other code ran on the hart.
Csrs == [sepc : KernelPcs, sstatus : Sstatuses, scause : UserScauses]

NoCsr == [sepc |-> 0, sstatus |-> [SPP |-> 0, SPIE |-> 0, SIE |-> 0],
          scause |-> SCAUSE_ILLEGAL]

InitKernel ==
  /\ kpc = "kernel"
  /\ csr = NoCsr
  /\ ksave = NoCsr
  /\ kwhich = 0
  /\ kproc = FALSE
  /\ kentry = NoCsr
  /\ knested = NoCsr

\* A kerneltrap that writes back the program counter only.
KRestore_SepcOnly(r, save) == [r EXCEPT !.sepc = save.sepc]

\* Lines 215-216: w_sepc(sepc); w_sstatus(sstatus).
KRestore(r, save) == [r EXCEPT !.sepc = save.sepc, !.sstatus = save.sstatus]

\* The hart takes a trap in kernel code: the hardware writes the trap
\* registers and kernelvec calls kerneltrap().
K_trap(sc, pc, st, pr) ==
  /\ kpc = "kernel" /\ dpc[0] = "idle"
  /\ sc = SCAUSE_EXTERNAL => pending # {}
  /\ sc = SCAUSE_TIMER => stip[0] /\ nper0 < MaxTicks
  /\ csr' = [sepc |-> pc, sstatus |-> st, scause |-> sc]
  /\ kentry' = csr'
  /\ knested' = csr'
  /\ kproc' = pr
  /\ kpc' = "entry"
  /\ UNCHANGED <<ksave, kwhich>>
  /\ UNCHANGED <<e1000vars, devvars, clockvars, uservars>>

\* Lines 193-200: the three registers are read into locals; panic unless
\* the trap came from supervisor mode with interrupts off.
K_entry ==
  /\ kpc = "entry"
  /\ ksave' = csr
  /\ kwhich' = 0
  /\ kpc' = IF csr.sstatus.SPP = 0 \/ csr.sstatus.SIE # 0 THEN "panic" ELSE "devintr"
  /\ UNCHANGED <<csr, kproc, kentry, knested>>
  /\ UNCHANGED <<e1000vars, devvars, clockvars, uservars>>

\* Line 202: devintr() is called; it reads scause itself (line 239).
K_devintr ==
  /\ kpc = "devintr" /\ dpc[0] = "idle"
  /\ dscause' = [dscause EXCEPT ![0] = csr.scause]
  /\ dlog' = [dlog EXCEPT ![0] = <<>>]
  /\ dirq' = [dirq EXCEPT ![0] = 0]
  /\ dpc' = [dpc EXCEPT ![0] = "scause"]
  /\ nper0' = IF csr.scause = SCAUSE_TIMER THEN nper0 + 1 ELSE nper0
  /\ kpc' = "indev"
  /\ UNCHANGED <<pending, claimed, dret, stip, tickslock, ticks>>
  /\ UNCHANGED <<csr, ksave, kwhich, kproc, kentry, knested>>
  /\ UNCHANGED <<e1000vars, uservars>>

\* Lines 202-210: devintr() returned; panic on an unknown source, yield()
\* on a timer interrupt when a process runs on the hart.
K_devret ==
  /\ kpc = "indev" /\ dpc[0] = "ret"
  /\ dpc' = [dpc EXCEPT ![0] = "idle"]
  /\ kwhich' = dret[0]
  /\ kpc' = IF dret[0] = 0 THEN "panic"
            ELSE IF dret[0] = 2 /\ kproc THEN "yield"
            ELSE "restore"
  /\ DevintrLocalsDead(0)
  /\ UNCHANGED <<pending, claimed, clockvars>>
  /\ UNCHANGED <<csr, ksave, kproc, kentry, knested>>
  /\ UNCHANGED <<e1000vars, uservars>>

\* Line 210: yield() runs other code on the hart until this process is
\* scheduled again; the traps taken meanwhile leave any values in the trap
\* registers.
K_yield ==
  /\ kpc = "yield"
  /\ \E r \in Csrs : csr' = r
  /\ knested' = csr'
  /\ kpc' = "restore"
  /\ UNCHANGED <<ksave, kwhich, kproc, kentry>>
  /\ UNCHANGED <<e1000vars, devvars, clockvars, uservars>>

\* Lines 215-216: the saved values are written back.
K_restore ==
  /\ kpc = "restore"
  /\ csr' = KRestore(csr, ksave)
  /\ kpc' = "ret"
  /\ UNCHANGED <<ksave, kwhich, kproc, kentry, knested>>
  /\ UNCHANGED <<e1000vars, devvars, clockvars, uservars>>

\* Line 217: kerneltrap returns and kernelvec's sret resumes the kernel
\* code; the frame is gone.
K_return ==
  /\ kpc = "ret"
  /\ kpc' = "kernel"
  /\ ksave' = NoCsr
  /\ kwhich' = 0
  /\ kproc' = FALSE
  /\ kentry' = NoCsr
  /\ knested' = NoCsr
  /\ csr' = NoCsr
  /\ UNCHANGED <<e1000vars, devvars, clockvars, uservars>>

\* Any trap from kernel mode.
KernelTraps ==
  \E sc \in KernelScauses, pc \in KernelPcs, st \in KernelSstatuses, pr \in BOOLEAN :
    K_trap(sc, pc, st, pr)

\* A device interrupt or the timer becomes pending while kernel code runs.
KernelDevRaise == kpc = "kernel" /\ pending = {} /\ \E irq \in IRQS : DevRaise(irq)

KernelTimerFire == kpc = "kernel" /\ TimerFire({0})

Kerneltrap ==
  \/ K_entry
  \/ K_devintr
  \/ K_devret
  \/ K_yield
  \/ K_restore
  \/ K_return

(* --------------------------- specifications --------------------------- *)

Init == InitE1000 /\ InitTrap /\ InitUser /\ InitKernel

NextTx == T_call(1) \/ TransmitBody(1) \/ HwTxComplete

SpecTx == Init /\ [][NextTx]_vars

NextRx == Intr(1) \/ HwRxAll

SpecRx == Init /\ [][NextRx]_vars

NextReenter == Intr(1) \/ T_call(1) \/ TransmitBody(1) \/ HwRxFew

SpecReenter == Init /\ [][NextReenter]_vars

NextRecv2 == Intr(1) \/ Intr(2) \/ HwRxFew

SpecRecv2 == Init /\ [][NextRecv2]_vars

NextDev ==
  \/ \E irq \in IRQS : DevRaise(irq)
  \/ \E h \in HARTS : D_enter(h, SCAUSE_EXTERNAL)
  \/ \E h \in HARTS : D_enter(h, SCAUSE_ILLEGAL)
  \/ \E h \in HARTS : Devintr(h)
  \/ \E h \in HARTS : D_return(h)

SpecDev == Init /\ [][NextDev]_vars

NextTimer ==
  \/ \E hs \in SUBSET HARTS : TimerFire(hs)
  \/ \E h \in HARTS : D_enter(h, SCAUSE_TIMER)
  \/ \E h \in HARTS : D_classify(h)
  \/ \E h \in HARTS : Clockintr(h)
  \/ \E h \in HARTS : D_return(h)

SpecTimer == Init /\ [][NextTimer]_vars

NextUser ==
  \/ UserTraps
  \/ Kill
  \/ Usertrap
  \/ Devintr(0)
  \/ Clockintr(0)
  \/ UserDevRaise
  \/ UserTimerFire

SpecUser == Init /\ [][NextUser]_vars

NextKernel ==
  \/ KernelTraps
  \/ Kerneltrap
  \/ Devintr(0)
  \/ Clockintr(0)
  \/ KernelDevRaise
  \/ KernelTimerFire

SpecKernel == Init /\ [][NextKernel]_vars

(* ------------------------- properties: transmit ----------------------- *)

\* C1: e1000_transmit succeeds exactly when the descriptor at TDT mod
\* TX_RING_SIZE had its DD bit set when the call examined it: the call goes on
\* to fill the slot only after seeing DD set, takes the error path only after
\* seeing it clear, and returns 0 in the first case and -1 in the second.
\* After e1000_init, while the device has completed nothing, at most
\* TX_RING_SIZE calls succeed: every call that fills a slot is one of the
\* first TX_RING_SIZE, and a call fails only once TX_RING_SIZE have succeeded.
C1_TransmitIffDone ==
  \A c \in CPUS :
    /\ tpc[c] \in {"fill", "release"} => exam[c]
    /\ tpc[c] = "error" => ~exam[c]
    /\ tpc[c] = "ret" => (tret[c] = 0 <=> exam[c])
    /\ tpc[c] = "ret" => tret[c] \in {0, -1}
    /\ ~anyComp => nsucc <= TX_RING_SIZE
    /\ (~anyComp /\ tpc[c] = "fill") => nsucc < TX_RING_SIZE
    /\ (~anyComp /\ tpc[c] = "check") => (TxDone(TxTail) <=> nsucc < TX_RING_SIZE)
    /\ (~anyComp /\ tpc[c] \in {"error", "ret"} /\ ~exam[c]) => nsucc = TX_RING_SIZE

\* C1 witness: with no completion by the device, TX_RING_SIZE transmits have
\* succeeded and the next one has returned -1.
C1_SeventeenthFails ==
  /\ ~anyComp
  /\ nsucc = TX_RING_SIZE
  /\ tpc[1] = "ret"
  /\ tret[1] = -1

\* The steps of a failing e1000_transmit on cpu c.
C2_FailSteps(c) ==
  /\ (tpc[c] = "check" /\ tpc'[c] = "error") =>
        /\ UNCHANGED <<tx_ring, tx_bufs, regs, owner, freelist>>
        /\ lock' = c
  /\ (tpc[c] = "error" /\ tpc'[c] # "error") =>
        /\ tpc'[c] = "ret"
        /\ tret'[c] = -1
        /\ lock' # c
        /\ UNCHANGED <<tx_ring, tx_bufs, owner, freelist>>
        /\ regs'.TDT = regs.TDT

\* The state in which a failing e1000_transmit leaves cpu c and the ring.
C2_Failed(c) ==
  /\ tpc[c] = "error" => ENABLED T_error(c)
  /\ (tpc[c] \in {"error", "ret"} /\ ~exam[c]) =>
        /\ owner[tbuf[c]] = "caller"
        /\ \A i \in TxIdx : tx_bufs[i] # tbuf[c] /\ tx_ring[i].addr # tbuf[c]
  /\ (tpc[c] = "ret" /\ tret[c] = -1) => lock # c

\* C2: a failing e1000_transmit does not wait: its error path is always able
\* to run, and it returns -1 with e1000_lock released.  Its steps leave every
\* TX descriptor, tx_bufs and TDT as they were, and the caller's buffer is
\* neither installed in the ring nor freed: it is still the caller's.
C2_FailLeavesRing ==
  /\ [](\A c \in CPUS : C2_Failed(c))
  /\ [][\A c \in CPUS : C2_FailSteps(c)]_vars

\* C2 witness: a transmit has returned -1 after the device completed some
\* descriptors, the ring being full again.
C2_FailedReturn ==
  /\ tpc[1] = "ret"
  /\ tret[1] = -1
  /\ anyComp
  /\ owner[tbuf[1]] = "caller"

(* ------------------------- properties: receive ------------------------ *)

\* The program points of e1000_recv between its read of RDT and its return.
InRecv(c) ==
  rpc[c] \in {"test", "unlock", "deliver", "netrx", "reacquire", "refill",
              "exit", "ret"}

\* What the deliveries of the current e1000_recv on cpu c look like.
C3_Order(c) ==
  LET log == rxlog[c]
      n == Len(log)
      start == (rstart[c] + 1) % RX_RING_SIZE
  IN InRecv(c) =>
       /\ \A k \in 1..n : log[k][1] = (start + k - 1) % RX_RING_SIZE
       /\ rpc[c] \in {"test", "unlock", "deliver", "exit", "ret"} =>
             /\ rtail[c] = (start + n) % RX_RING_SIZE
             /\ Len(rinst[c]) = n
       /\ rpc[c] \in {"netrx", "reacquire", "refill"} =>
             /\ n > 0
             /\ rtail[c] = log[n][1]
             /\ Len(rinst[c]) = n - 1
       /\ \A k \in 1..Len(rinst[c]) : rinst[c][k][1] = log[k][1]
       /\ \A k \in 1..(n - RX_RING_SIZE) :
             /\ log[k + RX_RING_SIZE][1] = log[k][1]
             /\ log[k + RX_RING_SIZE][2] = rinst[c][k][2]
       /\ (rpc[c] \in {"exit", "ret"} /\ rquiet[c]) => n = rrun[c]
       /\ (rpc[c] \in {"exit", "ret"} /\ rquiet[c] /\ rstart[c] = RX_RING_SIZE - 1
            /\ rrun[c] = 4) =>
             [k \in 1..n |-> log[k][1]] = <<0, 1, 2, 3>>

\* The loop test of e1000_recv on cpu c: it goes on exactly when the
\* descriptor it looks at is done.
C3_Test(c) ==
  /\ (rpc[c] = "test" /\ rpc'[c] = "unlock") =>
        /\ rx_ring[rtail[c]].status
        /\ rbuf'[c] = rx_bufs[rtail[c]]
  /\ (rpc[c] = "test" /\ rpc'[c] = "exit") => ~rx_ring[rtail[c]].status
  /\ (rpc[c] = "test" /\ rpc'[c] # "test") => rpc'[c] \in {"unlock", "exit"}
  /\ (rpc[c] = "deliver" /\ rpc'[c] = "netrx") =>
        rxlog'[c] = Append(rxlog[c], <<rtail[c], rbuf[c]>>)

\* C3: one e1000_recv delivers the packets in ring order, beginning at
\* (RDT + 1) mod RX_RING_SIZE as it read RDT: the k-th delivery is the
\* descriptor k - 1 places after that index, wrapping from RX_RING_SIZE - 1
\* to 0.  Each delivery is of a descriptor found done, the loop ends at the
\* first descriptor found not done, and with a silent device the deliveries
\* are as many as the descriptors that were done in a row.  A drain of more
\* than RX_RING_SIZE packets comes back to an index and delivers there the
\* buffer the refill installed after the first visit.  With descriptors
\* 0..3 done and RDT = 15 the deliveries are 0, 1, 2, 3.
C3_RingOrder ==
  /\ [](\A c \in CPUS : C3_Order(c))
  /\ [][\A c \in CPUS : C3_Test(c)]_vars

\* C3 witness: one e1000_recv has drained RX_RING_SIZE + 1 packets, from
\* index 0 round to index 0 again.
C3_WrapsToZero ==
  /\ rpc[1] = "ret"
  /\ Len(rxlog[1]) = RX_RING_SIZE + 1
  /\ rxlog[1][1][1] = 0
  /\ rxlog[1][RX_RING_SIZE][1] = RX_RING_SIZE - 1
  /\ rxlog[1][RX_RING_SIZE + 1][1] = 0

\* The case of four packets: e1000_recv read RDT = 15 with descriptors 0..3
\* done, the device stayed silent, and the deliveries were 0, 1, 2, 3.
C3_FourDone ==
  /\ rpc[1] = "ret"
  /\ rstart[1] = RX_RING_SIZE - 1
  /\ rrun[1] = 4
  /\ rquiet[1]
  /\ [k \in 1..Len(rxlog[1]) |-> rxlog[1][k][1]] = <<0, 1, 2, 3>>

\* The state of RX slot i when no e1000_recv is between its delivery and
\* its refill.
C4_Slot(i) ==
  LET inflight == \E c \in CPUS : /\ rpc[c] \in {"netrx", "reacquire", "refill"}
                                   /\ rtail[c] = i
  IN ~inflight =>
       /\ rx_bufs[i] # 0
       /\ owner[rx_bufs[i]] = "rx"
       /\ rx_ring[i].addr = rx_bufs[i]
       /\ \A j \in RxIdx : j # i => rx_bufs[j] # rx_bufs[i]

\* The slots e1000_recv on cpu c has drained, once it is past the loop.
C4_Drained(c) ==
  (rpc[c] \in {"exit", "ret"} /\ Len(rxlog[c]) > 0) =>
    LET n == Len(rxlog[c])
    IN /\ regs.RDT = rxlog[c][n][1]
       /\ ~rx_ring[rxlog[c][n][1]].status
       /\ \A k \in 1..n :
            /\ owner[rx_bufs[rxlog[c][k][1]]] = "rx"
            /\ owner[rxlog[c][k][2]] = "stack" =>
                  \A i \in RxIdx : rx_bufs[i] # rxlog[c][k][2]
            /\ k + RX_RING_SIZE > n => rx_bufs[rxlog[c][k][1]] = rinst[c][k][2]

\* The refill step of e1000_recv on cpu c.
C4_Refill(c) ==
  (rpc[c] = "refill" /\ rpc'[c] # "refill") =>
    LET t == rtail[c]
    IN /\ rpc'[c] = "test"
       /\ rx_bufs'[t] # 0
       /\ owner[rx_bufs'[t]] = "free"
       /\ owner'[rx_bufs'[t]] = "rx"
       /\ owner[rbuf[c]] # "free" => rx_bufs'[t] # rbuf[c]
       /\ rx_ring'[t].addr = rx_bufs'[t]
       /\ ~rx_ring'[t].status

C5_NetRxUnlocked ==
  \A c \in CPUS :
    /\ rpc[c] = "deliver" => lock # c
    /\ (rpc[c] = "netrx" /\ tpc[c] \in {"idle", "acquire", "ret"}) => lock # c
    /\ (rpc[c] = "netrx" /\ tpc[c] = "acquire") => ENABLED T_acquire(c)
    /\ (rpc[c] = "netrx" /\ tpc[c] \in {"check", "fill", "release", "error"}) =>
          ENABLED TransmitBody(c)
    /\ tpc[c] # "panic"
    /\ rpc[c] # "panic"

\* C5 witness: an e1000_transmit called from net_rx has taken the lock,
\* queued its packet and returned 0 while e1000_recv is still in net_rx.
C5_NestedTransmitDone ==
  /\ rpc[1] = "netrx"
  /\ replied[1]
  /\ tpc[1] = "ret"
  /\ tret[1] = 0
  /\ lock = 0

(* ------------------------- properties: devintr ------------------------ *)

\* The interrupt entry that belongs to each device identifier.
C6_Entry(irq) ==
  IF irq = UART0_IRQ THEN "uartintr"
  ELSE IF irq = VIRTIO0_IRQ THEN "virtio_disk_intr"
  ELSE "e1000_intr"

\* The positions of dlog[h] that record a call of f.
LogAt(h, f) == {k \in DOMAIN dlog[h] : dlog[h][k][1] = f}

\* C6: on an external interrupt, once devintr is past its dispatch with a
\* claimed identifier of the serial console, the disk or the network
\* device, it has called that device's interrupt entry (uartintr,
\* virtio_disk_intr, e1000_intr) with no plic_complete before the call.
C6_DispatchesToDevice ==
  \A h \in HARTS :
    (/\ dscause[h] = SCAUSE_EXTERNAL
     /\ dpc[h] \in {"handler", "complete", "ret"}
     /\ dirq[h] \in IRQS) =>
      \E k \in LogAt(h, C6_Entry(dirq[h])) :
        /\ dlog[h][k][2] = dirq[h]
        /\ \A j \in LogAt(h, "plic_complete") : k < j

\* C7: in every run of devintr on an external interrupt there is one
\* plic_claim; plic_complete is called at most once, with the identifier the
\* claim returned, that identifier being non-zero, and after every handler
\* devintr called has returned.  When devintr returns, a non-zero claim has
\* its one plic_complete and a claim of 0 has none.  An identifier is
\* claimed but not completed only on a hart that is still inside devintr
\* between its claim and its completion.
C7_CompleteOncePerClaim ==
  \A h \in HARTS :
    LET log == dlog[h]
        claims == LogAt(h, "plic_claim")
        completes == LogAt(h, "plic_complete")
        calls == DOMAIN log \ (claims \cup completes \cup LogAt(h, "return"))
    IN /\ Cardinality(claims) <= 1
       /\ Cardinality(completes) <= 1
       /\ \A k \in completes :
            /\ log[k][2] # 0
            /\ \E j \in claims : j < k /\ log[j][2] = log[k][2]
            /\ \A j \in calls :
                 \E m \in LogAt(h, "return") : j < m /\ m < k /\ log[m][2] = log[j][2]
       /\ (dpc[h] = "ret" /\ dscause[h] = SCAUSE_EXTERNAL) =>
            /\ Cardinality(claims) = 1
            /\ \A j \in claims :
                 IF log[j][2] # 0
                   THEN \E k \in completes : log[k][2] = log[j][2]
                   ELSE completes = {}
       /\ \A irq \in IRQS :
            <<irq, h>> \in claimed =>
              /\ dpc[h] \in {"dispatch", "handler", "complete"}
              /\ dirq[h] = irq

\* C7 witness: devintr has claimed the UART's identifier, called uartintr,
\* seen it return, completed the identifier and is about to return.
C7_UartServed ==
  /\ dpc[0] = "ret"
  /\ dlog[0] = << <<"plic_claim", UART0_IRQ>>, <<"uartintr", UART0_IRQ>>,
                  <<"return", UART0_IRQ>>, <<"plic_complete", UART0_IRQ>> >>
  /\ \A h \in HARTS : <<UART0_IRQ, h>> \notin claimed

(* ------------------------ properties: clockintr ----------------------- *)

\* The steps that change ticks.
C8_TickStep ==
  ticks' # ticks =>
    /\ ticks' = ticks + 1
    /\ dpc[0] = "ticks"
    /\ dpc'[0] = "release"
    /\ \A h \in HARTS \ {0} : dpc'[h] = dpc[h]
    /\ tickslock = 1
    /\ tickslock' = 1

\* ticks against the timer periods hart 0 has begun to handle.
C8_OnePerPeriod ==
  /\ dpc[0] \in {"scause", "clockintr", "acquire", "ticks"} => ticks = nper0 - 1
  /\ dpc[0] \in {"idle", "release", "stimecmp", "ret"} => ticks = nper0
  /\ tickslock \in {0, 1}
  /\ tickslock = 1 <=> dpc[0] \in {"ticks", "release"}

\* C8: however the timer interrupts of the harts interleave, ticks changes
\* only in hart 0's increment step, made with tickslock held by hart 0, and
\* then by exactly 1; it never decreases.  It counts the timer periods of
\* hart 0: once hart 0 is past its increment, ticks equals the number of
\* timer interrupts hart 0 has taken, whatever the other hart did meanwhile.
C8_TicksByHartZero ==
  /\ []C8_OnePerPeriod
  /\ [][C8_TickStep]_vars

\* C8 witness: the timer has fired on both harts, both have run clockintr
\* to the end, and ticks is 1.
C8_BothHartsOneTick ==
  /\ dpc[0] = "ret" /\ dret[0] = 2
  /\ dpc[1] = "ret" /\ dret[1] = 2
  /\ nper0 = 1
  /\ ticks = 1

(* ------------------------- properties: usertrap ----------------------- *)

\* The entries of ulog.
Logged == {ulog[k] : k \in DOMAIN ulog}

\* usertrap's states on a system-call trap.
C9_State ==
  /\ upc \in {"entry", "syskilled"} => "syscall" \notin Logged
  /\ (upc = "exited" /\ uscause = SCAUSE_SYSCALL /\ "syscall" \notin Logged) =>
        ulog = <<"save_epc", "exit">>
  /\ upc = "exited" => ~ENABLED (Usertrap \/ UserTraps)

\* usertrap's steps on a system-call trap.
C9_Step ==
  /\ killed => killed'
  /\ (upc = "entry" /\ uscause = SCAUSE_SYSCALL) => upc' \in {"entry", "syskilled"}
  /\ (upc = "syskilled" /\ killed) =>
        \/ upc' = "exited" /\ ulog' = Append(ulog, "exit") /\ tf_epc' = tf_epc
        \/ UNCHANGED <<upc, ulog>>
  /\ (upc # "intr_on" /\ upc' = "intr_on") => (upc = "syskilled" /\ ~killed)
  /\ (upc # "syscall" /\ upc' = "syscall") => upc = "intr_on"
  /\ ("syscall" \notin Logged /\ "syscall" \in {ulog'[k] : k \in DOMAIN ulog'}) =>
        upc = "syscall"
  /\ upc = "exited" => (upc' = "exited" /\ ulog' = ulog)

\* C9: a process that is marked killed stays marked, so one that is killed
\* when it traps with scause 8 is killed at the test of line 49; from there
\* usertrap's only step is exit(-1), with syscall() not called before and
\* nothing run after: syscall() is reached only through that test with the
\* process not killed, and an exited process takes no further step and never
\* returns to user mode.
C9_KilledSkipsSyscall ==
  /\ []C9_State
  /\ [][C9_Step]_vars

\* C9 witness: a killed process trapped with scause 8 and usertrap exited
\* right after saving the program counter.
C9_ExitedBeforeSyscall ==
  /\ upc = "exited"
  /\ uscause = SCAUSE_SYSCALL
  /\ killed
  /\ ulog = <<"save_epc", "exit">>

\* Access kind sc is not allowed by protection mask prot.
C10_Excluded(sc, prot) ==
  \/ sc = SCAUSE_LOAD_FAULT /\ "PROT_READ" \notin prot
  \/ sc = SCAUSE_STORE_FAULT /\ "PROT_WRITE" \notin prot
  \/ sc = SCAUSE_EXEC_FAULT /\ "PROT_EXEC" \notin prot

\* usertrap is handling a page fault at an address inside a valid VMA whose
\* protection excludes the access.
C10_Denied ==
  /\ upc \notin {"user", "entry"}
  /\ IsPageFault(uscause)
  /\ \E i \in DOMAIN vma :
       /\ vma[i].valid
       /\ ustval >= vma[i].addr /\ ustval < vma[i].addr + vma[i].len
       /\ C10_Excluded(uscause, vma[i].prot)

\* usertrap's states on such a fault.
C10_State ==
  C10_Denied =>
    /\ upc \notin {"kalloc", "readi", "mappages", "usertrapret"}
    /\ Logged \cap {"kalloc", "kalloc0", "readi", "mappages", "kfree", "yield"} = {}
    /\ upa = "none"
    /\ pte = <<>>
    /\ find = 0
    /\ upc \in {"after", "tail", "exited"} => (killed /\ "setkilled" \in Logged)
    /\ upc = "exited" => ulog[Len(ulog)] = "exit"

\* usertrap's steps on such a fault.
C10_Step ==
  C10_Denied =>
    /\ upc = "tail" => upc' \in {"tail", "exited"}
    /\ upc = "exited" => upc' = "exited"
    /\ upc' # "user"

\* C10: on a page fault at an address inside a valid VMA whose protection
\* excludes the access (0xd without PROT_READ, 0xf without PROT_WRITE, 0xc
\* without PROT_EXEC) usertrap marks the process killed and ends in
\* exit(-1), never returning to user mode; it calls neither kalloc() nor
\* readi() nor mappages(), holds no page and maps none.
C10_DeniedFaultKills ==
  /\ []C10_State
  /\ [][C10_Step]_vars

\* C10 witness: a store fault inside a valid read-only VMA has ended in
\* exit(-1) with nothing but setkilled in between (line 78, and line 131
\* again since find is still 0).
C10_StoreToReadOnly ==
  /\ upc = "exited"
  /\ uscause = SCAUSE_STORE_FAULT
  /\ \E i \in DOMAIN vma :
       /\ vma[i].valid
       /\ ustval >= vma[i].addr /\ ustval < vma[i].addr + vma[i].len
       /\ vma[i].prot = {"PROT_READ"}
  /\ ulog = <<"save_epc", "devintr", "setkilled", "setkilled", "exit">>

\* usertrap is handling a page fault at an address that no valid VMA slot
\* contains.
C11_Unmapped ==
  /\ upc \notin {"user", "entry"}
  /\ IsPageFault(uscause)
  /\ \A i \in DOMAIN vma :
       ~(/\ vma[i].valid
         /\ ustval >= vma[i].addr /\ ustval < vma[i].addr + vma[i].len)

\* usertrap's states on such a fault.
C11_State ==
  C11_Unmapped =>
    /\ upc \notin {"kalloc", "readi", "mappages", "usertrapret"}
    /\ Logged \cap {"kalloc", "kalloc0", "readi", "mappages", "kfree", "yield"} = {}
    /\ upa = "none"
    /\ pte = <<>>
    /\ find = 0
    /\ upc \in {"tail", "exited"} => (killed /\ "setkilled" \in Logged)
    /\ upc = "exited" => ulog[Len(ulog)] = "exit"

\* usertrap's steps on such a fault.
C11_Step ==
  C11_Unmapped =>
    /\ upc = "after" => upc' \in {"after", "tail"}
    /\ upc = "tail" => upc' \in {"tail", "exited"}
    /\ upc = "exited" => upc' = "exited"
    /\ upc' # "user"

\* C11: on a page fault at an address that no valid VMA slot contains,
\* slots that are not valid being passed over even when their range holds
\* the address, usertrap marks the process killed (line 131) and ends in
\* exit(-1), never returning to user mode; it calls neither kalloc() nor
\* readi() nor mappages(), holds no page and maps none.
C11_UnmappedFaultKills ==
  /\ []C11_State
  /\ [][C11_Step]_vars

\* C11 witness: a load fault at an address inside the range of a slot that
\* is not valid has ended in exit(-1).
C11_FaultInInvalidSlot ==
  /\ upc = "exited"
  /\ uscause = SCAUSE_LOAD_FAULT
  /\ \A i \in DOMAIN vma : ~vma[i].valid \/ ~InVma(ustval, vma[i])
  /\ \E i \in DOMAIN vma : ~vma[i].valid /\ InVma(ustval, vma[i])
  /\ ulog = <<"save_epc", "devintr", "setkilled", "exit">>

\* The first valid slot whose range holds the faulting address.
C12_Slot ==
  CHOOSE i \in DOMAIN vma :
    /\ vma[i].valid /\ ustval >= vma[i].addr /\ ustval < vma[i].addr + vma[i].len
    /\ \A j \in DOMAIN vma :
         (vma[j].valid /\ ustval >= vma[j].addr /\ ustval < vma[j].addr + vma[j].len)
           => i <= j

\* The page-aligned faulting address.
C12_Va == (ustval \div PGSIZE) * PGSIZE

\* The file offset the page is read from.
C12_Off == C12_Va - vma[C12_Slot].addr + vma[C12_Slot].offset

\* The bytes the file has left at that offset, a page at most.
C12_Bytes ==
  LET left == IF ufile > C12_Off THEN ufile - C12_Off ELSE 0
  IN IF left < PGSIZE THEN left ELSE PGSIZE

\* The page has been mapped for a fault in a file-backed VMA.
C12_Mapped ==
  /\ upa = "mapped"
  /\ IsPageFault(uscause)
  /\ vma[C12_Slot].file # 0

\* C12: once a permitted fault in a file-backed VMA has been served, the
\* page holds the file's bytes from offset (page-aligned faulting address -
\* VMA start + VMA offset) on, exactly min(PGSIZE, bytes left in the file at
\* that offset) of them, and zeros after them; it is the one page mapped, at
\* the page-aligned faulting address, with PTE_U and exactly those of PTE_R,
\* PTE_W, PTE_X whose PROT_ bit the VMA has.
C12_FilePageContents ==
  C12_Mapped =>
    /\ upage = [off |-> C12_Off, n |-> C12_Bytes]
    /\ pte = <<[va |-> C12_Va,
                perm |-> {"PTE_U"}
                  \cup {"PTE_R" : x \in vma[C12_Slot].prot \cap {"PROT_READ"}}
                  \cup {"PTE_W" : x \in vma[C12_Slot].prot \cap {"PROT_WRITE"}}
                  \cup {"PTE_X" : x \in vma[C12_Slot].prot \cap {"PROT_EXEC"}}]>>

\* C12 witness: a fault at an address that is not page-aligned, in the first
\* page of a VMA that starts one page into a file of PGSIZE + 100 bytes, has
\* been served with the file's last 100 bytes followed by zeros.
C12_ShortRead ==
  /\ C12_Mapped
  /\ ustval % PGSIZE # 0
  /\ vma[C12_Slot].offset = PGSIZE
  /\ ufile = PGSIZE + 100
  /\ upage = [off |-> PGSIZE, n |-> 100]
  /\ upc = "usertrapret"

\* C13: when kerneltrap returns, sepc and sstatus hold the values they had
\* on entry, whatever the traps taken during yield() left in them; scause
\* is not written back and holds what yield() left in it.
C13_RestoresSepcSstatus ==
  kpc = "ret" =>
    /\ csr.sepc = kentry.sepc
    /\ csr.sstatus = kentry.sstatus
    /\ csr.scause = knested.scause

\* C13 as stated: when kerneltrap returns, scause, sstatus and sepc each
\* hold the value they had on entry.
C13_RestoresAllThree ==
  kpc = "ret" =>
    /\ csr.sepc = kentry.sepc
    /\ csr.sstatus = kentry.sstatus
    /\ csr.scause = kentry.scause

\* C13 witness: kerneltrap is about to return from a timer interrupt whose
\* yield() left other values in all three registers.
C13_YieldDisturbedAll ==
  /\ kpc = "ret"
  /\ kwhich = 2
  /\ kentry.scause = SCAUSE_TIMER
  /\ knested.sepc # kentry.sepc
  /\ knested.sstatus # kentry.sstatus
  /\ knested.scause # kentry.scause

\* usertrap's states with interrupts enabled.
C14_State ==
  /\ (upc # "user" /\ intr) =>
        /\ uscause = SCAUSE_SYSCALL
        /\ upc \in {"syscall", "tail", "usertrapret", "exited"}
        /\ Len(ulog) >= 3
        /\ SubSeq(ulog, 1, 3) = <<"save_epc", "epc+4", "intr_on">>
  /\ "syscall" \in Logged =>
        /\ SubSeq(ulog, 1, 4) = <<"save_epc", "epc+4", "intr_on", "syscall">>
        /\ intr
        /\ tf_epc = sepc + 4

\* The steps that enable interrupts.
C14_Step ==
  (~intr /\ intr') =>
    \/ upc = "usertrapret" /\ upc' = "user"
    \/ /\ upc = "intr_on"
       /\ uscause = SCAUSE_SYSCALL
       /\ ulog = <<"save_epc", "epc+4">>
       /\ tf_epc = sepc + 4
       /\ ulog' = Append(ulog, "intr_on")

\* C14: on a system-call trap of a process not killed at line 49, usertrap
\* saves sepc in the trapframe, adds 4 to the saved value, enables
\* interrupts and calls syscall(), in that order; inside usertrap
\* interrupts are enabled by no other step, on no other cause, and never
\* before the program counter has been saved and advanced.
C14_SyscallOrder ==
  /\ []C14_State
  /\ [][C14_Step]_vars

\* C14 witness: a system call has been served and usertrap is about to
\* return to the instruction after the ecall, with interrupts enabled.
C14_SyscallServed ==
  /\ upc = "usertrapret"
  /\ ~killed
  /\ intr
  /\ ulog = <<"save_epc", "epc+4", "intr_on", "syscall">>
  /\ tf_epc = sepc + 4

\* The transmit ring's buffers at rest.
C15_State ==
  /\ ~dfree
  /\ \A i, j \in TxIdx :
       (i # j /\ tx_bufs[i] # 0) => tx_bufs[i] # tx_bufs[j]
  /\ \A i \in TxIdx :
       tx_bufs[i] # 0 =>
         /\ owner[tx_bufs[i]] = "tx"
         /\ \A k \in DOMAIN freelist : freelist[k] # tx_bufs[i]
  /\ \A c \in CPUS :
       (tpc[c] \in {"acquire", "check", "fill", "error"}) =>
         /\ owner[tbuf[c]] = "caller"
         /\ \A i \in TxIdx : tx_bufs[i] # tbuf[c]

\* The steps of e1000_transmit that free or take a buffer.
C15_Step ==
  /\ \A p \in Pages :
       (owner[p] = "tx" /\ owner'[p] # "tx") =>
         \E c \in CPUS :
           /\ tpc[c] = "fill" /\ tpc'[c] = "release"
           /\ exam[c]
           /\ p = tx_bufs[ttail[c]]
           /\ p # tbuf[c]
           /\ tx_bufs'[ttail[c]] = tbuf[c]
           /\ owner'[p] = "free"
           /\ freelist' = <<p>> \o freelist
           /\ \A q \in Pages \ {p} : owner[q] # "free" => owner'[q] # "free"
  /\ \A c \in CPUS :
       (tpc[c] \in {"acquire", "check", "fill", "release", "error"}
          /\ tpc'[c] # "idle") =>
         owner'[tbuf[c]] \in {"caller", "tx"}
  /\ \A i \in TxIdx :
       tx_bufs'[i] # tx_bufs[i] =>
         \E c \in CPUS : tpc[c] = "fill" /\ i = ttail[c] /\ tx_bufs'[i] = tbuf[c]

\* C15: across e1000_transmit calls and completions, the one buffer a
\* transmit frees is the buffer the reused slot held before, never the
\* caller's buffer; an accepted buffer leaves the ring only there, freed
\* once by a later successful transmit on the same slot; no buffer is in two
\* slots, none is free while installed, and none is freed twice.
C15_FreesOnlyOldBuffer ==
  /\ []C15_State
  /\ [][C15_Step]_vars

\* C15 witness: with every slot holding a buffer, a transmit came back to
\* slot 0, freed the buffer it held and installed the caller's.
C15_SlotZeroRecycled ==
  /\ tpc[1] = "release"
  /\ ttail[1] = 0
  /\ tx_bufs[0] = tbuf[1]
  /\ \A i \in TxIdx : tx_bufs[i] # 0
  /\ freelist # <<>>
  /\ owner[Head(freelist)] = "free"
  /\ Head(freelist) # tbuf[1]
  /\ anyComp
  /\ ~dfree

\* The steps of e1000_intr on cpu c up to the start of the drain.
C16_Entry(c) ==
  /\ (rpc[c] = "idle" /\ rpc'[c] # "idle") => rpc'[c] = "ack"
  /\ (rpc[c] = "ack" /\ rpc'[c] # "ack") =>
        /\ rpc'[c] = "acquire"
        /\ ~regs'.ICR
        /\ regs'.RDT = regs.RDT
        /\ rx_ring' = rx_ring /\ rx_bufs' = rx_bufs
        /\ rxlog'[c] = <<>>
  /\ (rpc[c] # "acquire" /\ rpc'[c] = "acquire") => rpc[c] = "ack"
  /\ (rpc[c] # "tail" /\ rpc'[c] = "tail") => rpc[c] = "acquire"
  /\ (~InRecv(c) /\ rpc'[c] \in {"test", "unlock", "deliver", "netrx",
                                 "reacquire", "refill", "exit", "ret"}) =>
        rpc[c] = "tail"

\* C16: every e1000_intr first writes the cause register, clearing the
\* pending causes, and only then enters e1000_recv: the write comes before
\* the lock is taken, before RDT is read and before any descriptor is
\* tested, and it is made whether or not a descriptor is done.
C16_AckBeforeDrain ==
  [][\A c \in CPUS : C16_Entry(c)]_vars

\* C16 witness: the device received one packet and raised the cause;
\* e1000_intr has cleared it and has not yet touched the ring, where the
\* descriptor is waiting.
C16_AckedWithPacketWaiting ==
  /\ rpc[1] = "acquire"
  /\ ~regs.ICR
  /\ npkts = 1
  /\ RxDone(RxHead)
  /\ rxlog[1] = <<>>

\* C16 witness: e1000_intr ran with no descriptor done, cleared the cause
\* register and returned without a delivery.
C16_AckedWithNothingDone ==
  /\ rpc[1] = "ret"
  /\ ~regs.ICR
  /\ ~RxDone(RxHead)
  /\ rxlog[1] = <<>>
  /\ npkts = 0

\* How many times usertrap has called f so far.
C17_Calls(f) == Cardinality({k \in DOMAIN ulog : ulog[k] = f})

\* The fault handler is past the loop of lines 66-126.
C17_Done ==
  /\ IsPageFault(uscause)
  /\ upc \in {"after", "tail", "usertrapret", "exited"}

\* The page of a fault, once the handler is past the loop.
C17_State ==
  /\ C17_Calls("kalloc") + C17_Calls("kalloc0") <= 1
  /\ C17_Calls("kfree") <= C17_Calls("kalloc")
  /\ C17_Done =>
       /\ "kalloc0" \in Logged =>
            /\ killed
            /\ C17_Calls("kalloc") = 0 /\ C17_Calls("kfree") = 0
            /\ upa = "none" /\ pte = <<>>
       /\ C17_Calls("kalloc") = 1 =>
            \/ /\ upa = "mapped" /\ Len(pte) = 1
               /\ C17_Calls("kfree") = 0
               /\ ulog[Len(ulog)] \in {"mappages", "yield", "exit"}
            \/ /\ upa = "freed" /\ pte = <<>>
               /\ C17_Calls("kfree") = 1
               /\ killed
               /\ "setkilled" \in Logged
       /\ C17_Calls("kalloc") = 0 => (upa = "none" /\ pte = <<>>)
  /\ upa = "held" => upc \in {"readi", "mappages"}

\* The steps that may fail.
C17_Step ==
  /\ (upc = "readi" /\ upc' = "after") =>
        /\ killed' /\ upa = "held" /\ upa' = "freed" /\ pte' = <<>>
        /\ ulog' = ulog \o <<"readi", "kfree", "setkilled">>
  /\ (upc = "mappages" /\ upc' = "after" /\ pte' = <<>>) =>
        /\ killed' /\ upa = "held" /\ upa' = "freed"
        /\ ulog' = ulog \o <<"mappages", "kfree", "setkilled">>
  /\ (upc = "mappages" /\ upc' = "after" /\ pte' # <<>>) =>
        /\ upa = "held" /\ upa' = "mapped" /\ killed' = killed
        /\ ulog' = Append(ulog, "mappages")
  /\ (upc = "kalloc" /\ upc' = "after") =>
        /\ killed' /\ upa' = "none" /\ pte' = <<>>
        /\ ulog' = ulog \o <<"kalloc0", "setkilled">>

\* C17: in the demand-paging path a failure of kalloc(), readi() or
\* mappages() marks the process killed; a page that was allocated is then
\* freed exactly once and is not mapped; on success exactly one page has
\* been allocated, it is mapped and it is not freed; kalloc() is called at
\* most once per fault and no path leaves the page neither mapped nor freed.
C17_PageMappedOrFreed ==
  /\ []C17_State
  /\ [][C17_Step]_vars

\* C17 witness: readi() failed on the freshly allocated page; the page was
\* freed once, nothing is mapped and the process has exited.
C17_ReadFailedPageFreed ==
  /\ upc = "exited"
  /\ IsPageFault(uscause)
  /\ ulog = <<"save_epc", "devintr", "kalloc", "readi", "kfree", "setkilled", "exit">>
  /\ upa = "freed"
  /\ pte = <<>>

\* Cpu c's next step reads or writes a descriptor, a buffer slot or a ring
\* register inside e1000_transmit (lines 99-121) or e1000_recv (lines
\* 138-143, 149-156).
C18_RingAccess(c) ==
  \/ tpc[c] \in {"check", "fill"}
  \/ rpc[c] \in {"tail", "test", "refill"}

\* Cpu c's next step is e1000_intr's write of the cause register (line 165).
C18_IcrAccess(c) == rpc[c] = "ack"

\* A step of cpu c's driver code changes the rings, the buffer slots or the
\* tail registers only with the lock held before and after it.
C18_Step(c) ==
  ((tpc'[c] # tpc[c] \/ rpc'[c] # rpc[c]) /\
     (tx_ring' # tx_ring \/ tx_bufs' # tx_bufs \/ rx_ring' # rx_ring \/
      rx_bufs' # rx_bufs \/ regs'.TDT # regs.TDT \/ regs'.RDT # regs.RDT)) =>
    (lock = c /\ lock' = c)

\* C18: e1000_transmit and e1000_recv read and write descriptors, buffer
\* slots and the ring registers only while the executing cpu holds
\* e1000_lock; e1000_intr writes the cause register before e1000_recv takes
\* the lock, so that one register access is made without it.
C18_RingAccessLocked ==
  /\ [](\A c \in CPUS : C18_RingAccess(c) => lock = c)
  /\ [](\A c \in CPUS : (C18_IcrAccess(c) /\ tpc[c] = "idle") => lock # c)
  /\ [][\A c \in CPUS : C18_Step(c)]_vars

\* C18 as stated: every access of the three operations, the cause register
\* write of e1000_intr included, is made with the lock held.
C18_AllAccessLocked ==
  \A c \in CPUS : (C18_RingAccess(c) \/ C18_IcrAccess(c)) => lock = c

\* C18 witness: after a delivery during which net_rx transmitted,
\* e1000_recv holds the lock again and is about to refill the slot.
C18_RefillUnderLock ==
  /\ rpc[1] = "refill"
  /\ lock = 1
  /\ Len(rxlog[1]) = 1
  /\ replied[1]
  /\ regs.TDT = 1

\* RDT and the drain head of e1000_recv on cpu c.
C19_State(c) ==
  /\ regs.RDT \in 0..(RX_RING_SIZE - 1)
  /\ regs.TDT \in 0..(TX_RING_SIZE - 1)
  /\ rpc[c] = "test" => rtail[c] = (regs.RDT + 1) % RX_RING_SIZE
  /\ (rpc[c] \in {"exit", "ret"} /\ rxlog[c] # <<>>) =>
        regs.RDT = rxlog[c][Len(rxlog[c])][1]
  /\ (rpc[c] \in {"exit", "ret"} /\ rxlog[c] = <<>>) => regs.RDT = rstart[c]

\* The writes of RDT and TDT.
C19_Step ==
  /\ regs'.RDT # regs.RDT =>
        \E c \in CPUS :
          /\ rpc[c] = "refill"
          /\ regs'.RDT = rtail[c]
          /\ regs'.RDT = (regs.RDT + 1) % RX_RING_SIZE
          /\ rtail'[c] = (regs'.RDT + 1) % RX_RING_SIZE
  /\ regs'.TDT # regs.TDT =>
        /\ regs'.TDT = (regs.TDT + 1) % TX_RING_SIZE
        /\ regs'.TDT \in 0..(TX_RING_SIZE - 1)

\* C19: RDT stays one behind the drain head.  After initialization RDT is
\* RX_RING_SIZE - 1 and the head, (RDT + 1) mod RX_RING_SIZE, is 0; every
\* time e1000_recv tests a descriptor, its index is (RDT + 1) mod
\* RX_RING_SIZE; when e1000_recv has drained at least one slot and leaves
\* the loop, RDT is the index of the last slot drained; every value written
\* to RDT or TDT is an index of the ring.
C19_TailOneBehindHead ==
  /\ regs.RDT = RX_RING_SIZE - 1
  /\ (regs.RDT + 1) % RX_RING_SIZE = 0
  /\ [](\A c \in CPUS : C19_State(c))
  /\ [][C19_Step]_vars

\* C19 witness: e1000_recv has drained slots 0 and 1 and returned with
\* RDT = 1, after sixteen transmits had brought TDT round to 0.
C19_DrainedTwoAfterTxWrap ==
  /\ rpc[1] = "ret"
  /\ Len(rxlog[1]) = 2
  /\ regs.RDT = 1
  /\ rxlog[1][2][1] = 1
  /\ regs.TDT = 0
  /\ tx_bufs[TX_RING_SIZE - 1] # 0

\* No buffer is inside net_rx on two cpus at once.
C20_DeliveredOnce ==
  \A c, d \in CPUS :
    (c # d /\ rpc[c] = "netrx" /\ rpc[d] = "netrx") => rbuf[c] # rbuf[d]

\* A buffer that an e1000_recv still running installed in a slot is in that
\* slot until it has been handed to net_rx.
C20_ReplacementKept ==
  \A c \in CPUS : \A k \in DOMAIN rinst[c] :
    LET t == rinst[c][k][1]
        q == rinst[c][k][2]
    IN rx_bufs[t] # q =>
         \E d \in CPUS : \E j \in DOMAIN rxlog[d] : rxlog[d][j] = <<t, q>>

\* C20: with e1000_recv running on two cpus at once, each releasing the
\* lock around net_rx, no receive buffer is handed to net_rx twice and no
\* replacement buffer is overwritten in its slot before it was delivered.
C20_ConcurrentRecvSafe ==
  /\ C20_DeliveredOnce
  /\ C20_ReplacementKept

====
